---------------------------- MODULE IntakeProofs ----------------------------
(***************************************************************************)
(* Theorems about Intake: its types, the uniqueness of accepted leads, the *)
(* truth of its responses, and the contract that the pipeline relies on,   *)
(* for any number of requests, any payloads and any number of faults.      *)
(***************************************************************************)
EXTENDS Intake, TLAPS

\* A handler works on a row its payload has.
AtInv ==
    \A r \in Requests :
        /\ pc[r] = "unsent" => at[r] = 1
        /\ pc[r] \in {"validate", "insert", "publish"} => at[r] \in DOMAIN payload[r]

TypeInv == TypeOK /\ AtInv

LEMMA ContentType ==
    ASSUME TypeInv, NEW r \in Requests, pc[r] \in {"validate", "insert", "publish"}
    PROVE  /\ Content(r) \in Contents
           /\ Id(r) \in Ids
           /\ Hash(r) \in Hashes
           /\ NewRow(r) \in Rows
<1>1. payload[r] \in Seq(Contents) /\ at[r] \in DOMAIN payload[r]
  <2>1. payload[r] \in Payloads \/ payload[r] = <<>>
    BY DEF TypeInv, TypeOK
  <2>2. <<>> \in Seq(Contents)
    OBVIOUS
  <2> QED BY <2>1, <2>2, PayloadsAssumption DEF TypeInv, AtInv
<1>2. Content(r) \in Contents
  BY <1>1 DEF Content
<1>3. Id(r) \in Ids
  BY DEF Id, Ids, TypeInv, TypeOK
<1>4. Hash(r) \in Hashes
  BY <1>2, SourcesAssumption DEF Hash, PayloadHash, Hashes, Contents
<1> QED
  BY <1>2, <1>3, <1>4 DEF NewRow, Key, Rows

LEMMA NextRowType ==
    ASSUME TypeInv, NEW r \in Requests, at[r] \in DOMAIN payload[r],
           NextRow(r), UNCHANGED payload
    PROVE  /\ pc' \in [Requests -> Locations]
           /\ at' \in [Requests -> Nat \ {0}]
           /\ AtInv'
<1>1. payload[r] \in Seq(Contents)
  <2>1. payload[r] \in Payloads \/ payload[r] = <<>>
    BY DEF TypeInv, TypeOK
  <2> QED BY <2>1, PayloadsAssumption
<1>2. Len(payload[r]) \in Nat /\ DOMAIN payload[r] = 1..Len(payload[r])
  BY <1>1
<1>3. CASE at[r] < Len(payload[r])
  <2>1. at[r] + 1 \in DOMAIN payload[r] /\ at[r] + 1 \in Nat \ {0}
    BY <1>2, <1>3 DEF TypeInv, TypeOK
  <2>2. /\ pc' = [pc EXCEPT ![r] = "validate"]
        /\ at' = [at EXCEPT ![r] = at[r] + 1]
    BY <1>3 DEF NextRow, GoTo
  <2> QED BY <2>1, <2>2 DEF TypeInv, TypeOK, AtInv, Locations
<1>4. CASE ~(at[r] < Len(payload[r]))
  BY <1>4
  DEF NextRow, GoTo, TypeInv, TypeOK, AtInv, Locations
<1> QED BY <1>3, <1>4

LEMMA AbortType ==
    ASSUME TypeInv, NEW r \in Requests, NEW answer \in Replies,
           Abort(r, answer), UNCHANGED <<payload, at>>
    PROVE  /\ pc' \in [Requests -> Locations]
           /\ reply' \in [Requests -> Replies]
           /\ pending' \in [Requests -> SUBSET Rows]
           /\ broken' = broken
           /\ AtInv'
  BY DEF Abort, GoTo, TypeInv, TypeOK, AtInv, Locations

LEMMA SpendType ==
    ASSUME TypeInv, NEW kind \in FaultKinds, Spend(kind)
    PROVE  faults' \in [FaultKinds -> Nat]
<1>1. faults[kind] - 1 \in Nat
  BY DEF Spend, TypeInv, TypeOK
<1> QED
  BY <1>1 DEF Spend, TypeInv, TypeOK

LEMMA TypeInit == Init => TypeInv
  BY FaultsAssumption
  DEF Init, TypeInv, TypeOK, AtInv, Locations, Routes, Verdicts, Replies

LEMMA TypeJudge ==
    ASSUME TypeInv, NEW r \in Requests, pc[r] = "validate",
           NEW v \in Verdicts, NEW original \in SUBSET Ids,
           Judge(r, v, original)
    PROVE  TypeInv'
<1>1. Id(r) \in Ids
  BY ContentType
<1>2. /\ verdict' \in [Requests -> Verdicts]
      /\ cited' \in [Requests -> SUBSET Ids]
      /\ UNCHANGED <<route, payload, at, leads, published, index, faults>>
  BY DEF Judge, TypeInv, TypeOK, database
<1>3. CASE GoTo(r, "insert") /\ UNCHANGED <<pending, broken, result, reply>>
  BY <1>2, <1>3 DEF TypeInv, TypeOK, AtInv, GoTo, Locations, result
<1>4. CASE /\ Abort(r, "rejected")
           /\ refused' = [refused EXCEPT ![r] = {Id(r)}]
           /\ originals' = [originals EXCEPT ![r] = original]
           /\ UNCHANGED queued
  <2>1. /\ pc' \in [Requests -> Locations]
        /\ reply' \in [Requests -> Replies]
        /\ pending' \in [Requests -> SUBSET Rows]
        /\ broken' = broken
        /\ AtInv'
    BY <1>2, <1>4, AbortType DEF Replies
  <2> QED BY <1>1, <1>2, <1>4, <2>1 DEF TypeInv, TypeOK
<1>5. CASE /\ GoTo(r, "commit")
           /\ refused' = [refused EXCEPT ![r] = {Id(r)}]
           /\ originals' = [originals EXCEPT ![r] = original]
           /\ UNCHANGED <<pending, broken, queued, reply>>
  BY <1>1, <1>2, <1>5 DEF TypeInv, TypeOK, AtInv, GoTo, Locations
<1> QED
  BY <1>3, <1>4, <1>5 DEF Judge

LEMMA TypeReceive ==
    ASSUME TypeInv, NEW r \in Requests, Receive(r)
    PROVE  TypeInv'
<1>1. PICK p \in Payloads :
         /\ payload' = [payload EXCEPT ![r] = p]
         /\ GoTo(r, IF p = <<>> THEN "commit" ELSE "validate")
  BY DEF Receive
<1>2. p \in Seq(Contents)
  BY PayloadsAssumption
<1>3. pc[r] = "unsent" /\ at[r] = 1 /\ UNCHANGED at
  BY DEF Receive, row, TypeInv, AtInv
<1>4. p # <<>> => 1 \in DOMAIN p
  BY <1>2
<1> QED
  BY <1>1, <1>2, <1>3, <1>4
  DEF Receive, TypeInv, TypeOK, AtInv, GoTo, Locations, Routes, row, result,
      database

LEMMA TypeInsert ==
    ASSUME TypeInv, NEW r \in Requests,
           \/ Insert(r) \/ InsertRejected(r) \/ InsertSwallowed(r)
           \/ InsertBroken(r) \/ Publish(r)
    PROVE  TypeInv'
<1>1. /\ pc[r] \in {"insert", "publish"}
      /\ at[r] \in DOMAIN payload[r]
      /\ UNCHANGED <<route, payload, verdict, cited, leads, index>>
  BY DEF Insert, InsertRejected, InsertSwallowed, InsertBroken, Publish,
         Swallow, TypeInv, AtInv, row, database
<1>2. Id(r) \in Ids /\ NewRow(r) \in Rows
  BY <1>1, ContentType
<1>3. cited[r] \in SUBSET Ids
  BY DEF TypeInv, TypeOK
<1>4. CASE Insert(r)
  BY <1>1, <1>2, <1>4
  DEF Insert, GoTo, TypeInv, TypeOK, AtInv, Locations, row, result, database
<1>5. CASE InsertRejected(r) /\ Abort(r, "rejected") /\ UNCHANGED at
  <2>1. /\ pc' \in [Requests -> Locations]
        /\ reply' \in [Requests -> Replies]
        /\ pending' \in [Requests -> SUBSET Rows]
        /\ broken' = broken
        /\ AtInv'
    BY <1>1, <1>5, AbortType DEF Replies
  <2>2. /\ refused' = [refused EXCEPT ![r] = @ \cup {Id(r)}]
        /\ originals' = [originals EXCEPT ![r] = @ \cup cited[r]]
        /\ UNCHANGED <<at, queued, database, faults>>
    BY <1>5 DEF InsertRejected
  <2> QED BY <1>1, <1>2, <1>3, <2>1, <2>2 DEF TypeInv, TypeOK, database
<1>6. CASE /\ InsertRejected(r)
           /\ pending' = [pending EXCEPT ![r] = @ \cup {NewRow(r)}]
           /\ NextRow(r)
           /\ UNCHANGED <<broken, reply>>
  <2>1. /\ pc' \in [Requests -> Locations]
        /\ at' \in [Requests -> Nat \ {0}]
        /\ AtInv'
    BY <1>1, <1>6, NextRowType
  <2>2. /\ refused' = [refused EXCEPT ![r] = @ \cup {Id(r)}]
        /\ originals' = [originals EXCEPT ![r] = @ \cup cited[r]]
        /\ UNCHANGED <<queued, database, faults>>
    BY <1>6 DEF InsertRejected
  <2> QED BY <1>1, <1>2, <1>3, <1>6, <2>1, <2>2 DEF TypeInv, TypeOK, database
<1>7. CASE InsertSwallowed(r) \/ InsertBroken(r)
  <2>1. Swallow(r)
    BY <1>7 DEF InsertSwallowed, InsertBroken
  <2>2. /\ pc' \in [Requests -> Locations]
        /\ at' \in [Requests -> Nat \ {0}]
        /\ AtInv'
    BY <1>1, <2>1, NextRowType DEF Swallow
  <2>3. /\ broken' \in [Requests -> BOOLEAN]
        /\ faults' \in [FaultKinds -> Nat]
    BY <1>7, SpendType
    DEF InsertSwallowed, InsertBroken, FaultKinds, TypeInv, TypeOK
  <2> QED
    BY <1>1, <1>2, <1>3, <2>1, <2>2, <2>3
    DEF Swallow, TypeInv, TypeOK, database
<1>8. CASE Publish(r)
  <2>1. /\ pc' \in [Requests -> Locations]
        /\ at' \in [Requests -> Nat \ {0}]
        /\ AtInv'
    BY <1>1, <1>8, NextRowType DEF Publish
  <2> QED BY <1>1, <1>2, <1>8, <2>1 DEF Publish, TypeInv, TypeOK
<1> QED
  BY <1>4, <1>5, <1>6, <1>7, <1>8 DEF InsertRejected

LEMMA TypeAbort ==
    ASSUME TypeInv, NEW r \in Requests,
           \/ ReadShortRow(r) \/ ValidateBroken(r) \/ InsertConflict(r) \/ InsertDeadlock(r)
           \/ InsertFails(r) \/ PublishFails(r) \/ CommitFails(r)
           \/ CommitUnconfirmed(r)
    PROVE  TypeInv'
<1>1. /\ Abort(r, "error")
      /\ UNCHANGED <<route, payload, row, result, published, index>>
      /\ leads' = leads \/ leads' = leads \cup pending[r]
  BY DEF ReadShortRow, ValidateBroken, InsertConflict, InsertDeadlock, InsertFails,
         PublishFails, CommitFails, CommitUnconfirmed, database
<1>2. faults' \in [FaultKinds -> Nat]
  BY SpendType
  DEF ReadShortRow, ValidateBroken, InsertConflict, InsertDeadlock, InsertFails,
      PublishFails, CommitFails, CommitUnconfirmed, FaultKinds, TypeInv, TypeOK
<1>3. /\ pc' \in [Requests -> Locations]
      /\ reply' \in [Requests -> Replies]
      /\ pending' \in [Requests -> SUBSET Rows]
      /\ broken' = broken
      /\ AtInv'
  BY <1>1, AbortType DEF Replies, row
<1> QED
  BY <1>1, <1>2, <1>3 DEF TypeInv, TypeOK, row, result

LEMMA TypeStep == TypeInv /\ [Next]_vars => TypeInv'
<1> SUFFICES ASSUME TypeInv, [Next]_vars PROVE TypeInv'
  OBVIOUS
<1>1. CASE UNCHANGED vars
  BY <1>1 DEF TypeInv, TypeOK, AtInv, vars, row, result, database
<1>2. ASSUME NEW r \in Requests, Receive(r)
      PROVE  TypeInv'
  BY <1>2, TypeReceive
<1>3. ASSUME NEW r \in Requests, Handle(r)
      PROVE  TypeInv'
  <2>1. CASE JudgeInvalid(r) \/ JudgeValid(r)
    <3>1. \E v \in Verdicts : pc[r] = "validate" /\ Judge(r, v, {})
      BY <2>1 DEF JudgeInvalid, JudgeValid, Verdicts
    <3> QED BY <3>1, TypeJudge
  <2>2. CASE JudgeDuplicate(r) \/ JudgeSimilar(r)
    <3>1. \E v \in Verdicts, x \in leads \cup pending[r] :
             pc[r] = "validate" /\ Judge(r, v, {x.id})
      BY <2>2
      DEF JudgeDuplicate, JudgeSimilar, Duplicate, Similar, Visible, Verdicts
    <3>2. \A x \in leads \cup pending[r] : {x.id} \in SUBSET Ids
      BY DEF TypeInv, TypeOK, Rows
    <3> QED BY <3>1, <3>2, TypeJudge
  <2>3. CASE Commit(r)
    BY <2>3
    DEF Commit, GoTo, TypeInv, TypeOK, AtInv, Locations, Replies, row, result
  <2> QED
    BY <1>3, <2>1, <2>2, <2>3, TypeInsert, TypeAbort DEF Handle
<1>4. ASSUME NEW x \in leads, Embed(x)
      PROVE  TypeInv'
  BY <1>4 DEF Embed, TypeInv, TypeOK, AtInv, row, result
<1>5. CASE Crash
  <2>1. faults' \in [FaultKinds -> Nat]
    BY <1>5, SpendType DEF Crash, FaultKinds
  <2>2. /\ pc' \in [Requests -> Locations]
        /\ reply' \in [Requests -> Replies]
        /\ pending' \in [Requests -> SUBSET Rows]
    BY <1>5 DEF Crash, TypeInv, TypeOK, Locations, Replies
  <2>3. AtInv'
    BY <1>5 DEF Crash, InService, TypeInv, TypeOK, AtInv, row
  <2> QED
    BY <1>5, <2>1, <2>2, <2>3 DEF Crash, TypeInv, TypeOK, row, result, database
<1> QED
  BY <1>1, <1>2, <1>3, <1>4, <1>5 DEF Next

\* The variables of the intake stay in their sets, whatever the requests send
\* and whatever fails (all handlers, get_async_session, a dying process).
THEOREM IntakeTypes == Spec => []TypeOK
<1>1. Init => TypeInv
  BY TypeInit
<1>2. TypeInv /\ [Next]_vars => TypeInv'
  BY TypeStep
<1>3. TypeInv => TypeOK
  BY DEF TypeInv
<1> QED
  BY <1>1, <1>2, <1>3, PTL DEF Spec

-----------------------------------------------------------------------------
(***************************************************************************)
(* One accepted lead for each hash.  The rows a transaction has flushed    *)
(* already hold their keys, so the invariant is about them as well, and an *)
(* insert relies on what the check saw in its own transaction.             *)
(***************************************************************************)
Flushed == leads \cup UNION {pending[r] : r \in Requests}

\* Accepted rows, committed or flushed, have different keys.
Distinct ==
    \A x, y \in Flushed :
        x.status = "VALIDATED" /\ y.status = "VALIDATED" /\ x.key = y.key
            => x.id = y.id

\* A lead found valid is not in its own transaction already.
Fresh ==
    \A r \in Requests :
        pc[r] = "insert" /\ verdict[r] = "valid" => ~Holds(pending[r], Hash(r))

UniqueInv == Distinct /\ Fresh

\* No step that only keeps or drops rows, and sends no request to insert,
\* can disturb it.
LEMMA UniqueKept ==
    ASSUME UniqueInv,
           Flushed' \subseteq Flushed,
           \A q \in Requests : pc'[q] = "insert" =>
              /\ pc[q] = "insert" /\ pending'[q] \subseteq pending[q]
              /\ verdict'[q] = verdict[q] /\ Hash(q)' = Hash(q)
    PROVE  UniqueInv'
  BY DEF UniqueInv, Distinct, Fresh, Holds

LEMMA UniqueInsert ==
    ASSUME TypeInv, UniqueInv, NEW r \in Requests, Insert(r)
    PROVE  UniqueInv'
<1>1. /\ ~Holds(leads, Hash(r))
      /\ \A q \in Requests : ~Holds(pending[q], Hash(r))
  BY DEF Insert, Waits, Key, UniqueInv, Fresh
<1>2. \A x \in Flushed : x.key # Hash(r)
  BY <1>1 DEF Flushed, Holds
<1>3. NewRow(r).key = Hash(r)
  BY DEF Insert, NewRow, Key
<1>4. Flushed' \subseteq Flushed \cup {NewRow(r)}
  BY DEF Insert, Flushed, TypeInv, TypeOK, database
<1>5. Distinct'
  BY <1>2, <1>3, <1>4 DEF UniqueInv, Distinct
<1>6. \A q \in Requests : pc'[q] = "insert" =>
         /\ q # r /\ pc[q] = "insert" /\ pending'[q] = pending[q]
         /\ verdict'[q] = verdict[q] /\ Hash(q)' = Hash(q)
  BY DEF Insert, GoTo, TypeInv, TypeOK, Hash, Content, PayloadHash, row
<1> QED
  BY <1>5, <1>6 DEF UniqueInv, Fresh, Holds

LEMMA UniqueJudge ==
    ASSUME TypeInv, UniqueInv, NEW r \in Requests, pc[r] = "validate",
           NEW v \in Verdicts, NEW original, Judge(r, v, original),
           v = "valid" => ~Holds(pending[r], Hash(r))
    PROVE  UniqueInv'
<1>1. /\ \A q \in Requests : pending'[q] \subseteq pending[q]
      /\ leads' = leads
      /\ \A q \in Requests \ {r} : pc'[q] = pc[q] /\ verdict'[q] = verdict[q]
      /\ verdict'[r] = v
  BY DEF Judge, Abort, GoTo, TypeInv, TypeOK, database
<1>2. Flushed' \subseteq Flushed
  BY <1>1 DEF Flushed
<1>3. \A q \in Requests : Hash(q)' = Hash(q)
  BY DEF Judge, Hash, Content, PayloadHash
<1> QED
  BY <1>1, <1>2, <1>3 DEF UniqueInv, Distinct, Fresh, Holds

LEMMA UniqueHandled ==
    ASSUME TypeInv, UniqueInv, NEW r \in Requests,
           \/ ReadShortRow(r) \/ ValidateBroken(r) \/ InsertRejected(r) \/ InsertConflict(r)
           \/ InsertDeadlock(r) \/ InsertFails(r) \/ InsertSwallowed(r)
           \/ InsertBroken(r) \/ Publish(r) \/ PublishFails(r) \/ Commit(r)
           \/ CommitFails(r) \/ CommitUnconfirmed(r)
    PROVE  UniqueInv'
<1> DEFINE
      Ends == \/ Abort(r, "error") \/ Abort(r, "rejected")
              \/ NextRow(r)
              \/ GoTo(r, "answered") /\ UNCHANGED at
<1>1. /\ Ends
      /\ UNCHANGED <<route, payload, verdict>>
      /\ at' = at \/ NextRow(r)
  BY DEF ReadShortRow, ValidateBroken, InsertRejected, InsertConflict, InsertDeadlock,
         InsertFails, InsertSwallowed, InsertBroken, Publish, PublishFails,
         Commit, CommitFails, CommitUnconfirmed, Swallow, row
<1>2. /\ pc'[r] # "insert"
      /\ \A q \in Requests \ {r} : pc'[q] = pc[q] /\ at'[q] = at[q]
  BY <1>1 DEF Abort, NextRow, GoTo, TypeInv, TypeOK
<1>3. /\ \A q \in Requests \ {r} : pending'[q] = pending[q]
      /\ leads' = leads \/ leads' = leads \cup pending[r]
      /\ \/ pending'[r] \subseteq pending[r]
         \/ verdict[r] # "valid" /\ pending'[r] = pending[r] \cup {NewRow(r)}
  BY DEF ReadShortRow, ValidateBroken, InsertRejected, InsertConflict, InsertDeadlock,
         InsertFails, InsertSwallowed, InsertBroken, Publish, PublishFails,
         Commit, CommitFails, CommitUnconfirmed, Swallow, Abort, database,
         TypeInv, TypeOK
<1>4. \A x \in Flushed' : x \in Flushed \/ x.status # "VALIDATED"
  <2>1. verdict[r] # "valid" => NewRow(r).status = "REJECTED"
    BY DEF NewRow
  <2> QED BY <1>3, <2>1 DEF Flushed
<1>5. Distinct'
  BY <1>4 DEF UniqueInv, Distinct
<1>6. \A q \in Requests \ {r} : Hash(q)' = Hash(q)
  BY <1>1, <1>2 DEF Hash, Content, PayloadHash
<1> QED
  BY <1>1, <1>2, <1>3, <1>5, <1>6 DEF UniqueInv, Fresh, Holds

LEMMA UniqueStep == TypeInv /\ UniqueInv /\ [Next]_vars => UniqueInv'
<1> SUFFICES ASSUME TypeInv, UniqueInv, [Next]_vars PROVE UniqueInv'
  OBVIOUS
<1>1. CASE UNCHANGED vars
  <2>1. /\ Flushed' = Flushed
        /\ UNCHANGED <<pc, route, payload, at, verdict, pending>>
    BY <1>1 DEF vars, row, database, Flushed
  <2> QED BY <2>1, UniqueKept DEF Hash, Content, PayloadHash
<1>2. ASSUME NEW r \in Requests, Receive(r)
      PROVE  UniqueInv'
  <2>1. /\ Flushed' = Flushed
        /\ UNCHANGED <<at, verdict, pending>>
    BY <1>2 DEF Receive, Flushed, row, database
  <2>2. \A q \in Requests : pc'[q] = "insert" =>
           q # r /\ pc[q] = "insert" /\ Hash(q)' = Hash(q)
    BY <1>2, <2>1
    DEF Receive, GoTo, Hash, Content, PayloadHash, TypeInv, TypeOK
  <2> QED BY <2>1, <2>2, UniqueKept
<1>3. ASSUME NEW r \in Requests, Handle(r)
      PROVE  UniqueInv'
  <2>1. CASE JudgeInvalid(r) \/ JudgeDuplicate(r) \/ JudgeSimilar(r)
    <3>1. \E v \in Verdicts : \E original :
             /\ pc[r] = "validate" /\ v # "valid"
             /\ Judge(r, v, original)
      BY <2>1 DEF JudgeInvalid, JudgeDuplicate, JudgeSimilar, Verdicts
    <3> QED BY <3>1, UniqueJudge
  <2>2. CASE JudgeValid(r)
    <3>1. ~Holds(pending[r], Hash(r))
      BY <2>2 DEF JudgeValid, Duplicate, Visible, Holds
    <3> QED BY <2>2, <3>1, UniqueJudge DEF JudgeValid, Verdicts
  <2> QED
    BY <1>3, <2>1, <2>2, UniqueInsert, UniqueHandled DEF Handle
<1>4. ASSUME NEW x \in leads, Embed(x)
      PROVE  UniqueInv'
  <2>1. /\ Flushed' = Flushed
        /\ UNCHANGED <<pc, route, payload, at, verdict, pending>>
    BY <1>4 DEF Embed, Flushed, row
  <2> QED BY <2>1, UniqueKept DEF Hash, Content, PayloadHash
<1>5. CASE Crash
  <2>1. /\ Flushed' \subseteq Flushed
        /\ \A q \in Requests : pc'[q] # "insert"
    BY <1>5 DEF Crash, InService, Flushed, TypeInv, TypeOK, database
  <2> QED BY <2>1, UniqueKept
<1> QED
  BY <1>1, <1>2, <1>3, <1>4, <1>5 DEF Next

\* Two accepted leads never have the same payload_hash, however many requests
\* race between check_duplicate and the insert, and whatever fails.
THEOREM HashIsUnique == Spec => []OneLeadPerHash
<1>1. Init => TypeInv /\ UniqueInv
  BY TypeInit
  DEF Init, UniqueInv, Distinct, Fresh, Flushed
<1>2. TypeInv /\ UniqueInv /\ [Next]_vars => (TypeInv /\ UniqueInv)'
  BY TypeStep, UniqueStep
<1>3. UniqueInv => OneLeadPerHash
  BY DEF UniqueInv, Distinct, Flushed, OneLeadPerHash
<1> QED
  BY <1>1, <1>2, <1>3, PTL DEF Spec

-----------------------------------------------------------------------------
(***************************************************************************)
(* What a request owes its client.  Each part is about one request: its    *)
(* rows, the single-lead handlers, the response it is building, and the    *)
(* response it has given.                                                  *)
(***************************************************************************)
Working == {"validate", "insert", "publish"}

\* A transaction holds rows of its own request, one for each published lead
\* until it ends or breaks; a committed row belongs to an answered request.
RowsInv(r) ==
    /\ \A x \in pending[r] : x.id[1] = r
    /\ \A x \in leads : x.id[1] = r => pc[r] = "answered"
    /\ \A i \in published : i[1] = r =>
          pc[r] # "unsent" /\ (pc[r] \in Working => i[2] < at[r])
    /\ broken[r] \/ pc[r] \in {"unsent", "answered"} => pending[r] = {}
    /\ pc[r] = "publish" =>
          \E x \in pending[r] : x.id = Id(r) /\ x.status = "VALIDATED"

\* create_lead and receive_webhook carry one lead and swallow no failure.
SingleInv(r) ==
    /\ pc[r] = "unsent" =>
          ~broken[r] /\ queued[r] = {} /\ refused[r] = {} /\ originals[r] = {}
    /\ route[r] # "create_leads_batch" =>
          /\ ~broken[r]
          /\ pc[r] \in Working => Len(payload[r]) = 1
          /\ pc[r] \in {"validate", "insert"} => pending[r] = {} /\ originals[r] = {}

\* A lead the response may refer to: stored, or it will be if r commits.
Known(r, i) == broken[r] \/ \E x \in leads \cup pending[r] : x.id = i

Queued(r) ==
    \A i \in queued[r] :
        /\ i \in published
        /\ broken[r] \/ \E x \in pending[r] : x.id = i /\ x.status = "VALIDATED"
Refused(r) ==
    \A i \in refused[r] :
        \/ broken[r]
        \/ \E x \in pending[r] : x.id = i /\ x.status = "REJECTED"
        \/ pc[r] = "commit" /\ route[r] = "receive_webhook" /\ verdict[r] = "duplicate"

BuildInv(r) ==
    /\ reply[r] # "none" => pc[r] = "answered"
    /\ pc[r] # "answered" =>
          /\ Queued(r) /\ Refused(r)
          /\ \A i \in originals[r] : Known(r, i)
          /\ pc[r] = "insert" => \A i \in cited[r] : Known(r, i)

\* ResponseTrue and OriginalStored, for one request.
AnswerInv(r) ==
    /\ reply[r] = "ok" =>
          /\ \A i \in queued[r] :
                i \in published /\ \E x \in leads : x.id = i /\ x.status = "VALIDATED"
          /\ \A i \in refused[r] :
                \/ \E x \in leads : x.id = i /\ x.status = "REJECTED"
                \/ route[r] = "receive_webhook" /\ verdict[r] = "duplicate"
    /\ reply[r] \in {"ok", "rejected"} =>
          \A i \in originals[r] : \E x \in leads : x.id = i

RequestInv(r) == RowsInv(r) /\ SingleInv(r) /\ BuildInv(r) /\ AnswerInv(r)
ResponseInv == \A r \in Requests : RequestInv(r)

\* What a step of another request leaves to q.
Keeps(q) ==
    /\ pc'[q] = pc[q] /\ route'[q] = route[q] /\ payload'[q] = payload[q]
    /\ at'[q] = at[q] /\ verdict'[q] = verdict[q] /\ cited'[q] = cited[q]
    /\ pending'[q] = pending[q] /\ broken'[q] = broken[q]
    /\ queued'[q] = queued[q] /\ refused'[q] = refused[q]
    /\ originals'[q] = originals[q] /\ reply'[q] = reply[q]
    /\ leads \subseteq leads' /\ published \subseteq published'
    /\ \A x \in leads' \ leads : x.id[1] # q
    /\ \A i \in published' \ published : i[1] # q

LEMMA KeepsRequest ==
    ASSUME NEW q \in Requests, RequestInv(q), Keeps(q)
    PROVE  RequestInv(q)'
<1>1. RowsInv(q)' /\ SingleInv(q)'
  BY DEF RequestInv, Keeps, RowsInv, SingleInv, Id
<1>2. BuildInv(q)'
  BY DEF RequestInv, Keeps, BuildInv, Queued, Refused, Known
<1>3. AnswerInv(q)'
  BY DEF RequestInv, Keeps, AnswerInv
<1> QED BY <1>1, <1>2, <1>3 DEF RequestInv

\* A request that has been answered keeps what it owes when rows are added.
LEMMA EndsRequest ==
    ASSUME TypeInv, NEW r \in Requests, RequestInv(r),
           pc'[r] = "answered", pending'[r] = {},
           route[r] # "create_leads_batch" => ~broken'[r],
           UNCHANGED <<route, payload, published>>, AnswerInv(r)',
           \A i \in published : i[1] = r => pc[r] # "unsent"
    PROVE  RequestInv(r)'
BY DEF RequestInv, RowsInv, SingleInv, BuildInv, Working

\* A step of one request leaves the others alone.
LEMMA HandleKeeps ==
    ASSUME TypeInv, NEW r \in Requests, RequestInv(r), Receive(r) \/ Handle(r),
           NEW q \in Requests, q # r
    PROVE  Keeps(q)
<1> USE DEF TypeInv, TypeOK
<1>1. /\ Id(r)[1] # q
      /\ \A x \in pending[r] : x.id[1] # q
  BY DEF Id, RequestInv, RowsInv
<1>2. CASE Receive(r)
  BY <1>2 DEF Receive, GoTo, Keeps, row, result, database
<1>3. CASE \/ JudgeInvalid(r) \/ JudgeDuplicate(r) \/ JudgeSimilar(r)
           \/ JudgeValid(r)
  <2>1. \E v : \E original : Judge(r, v, original)
    BY <1>3 DEF JudgeInvalid, JudgeDuplicate, JudgeSimilar, JudgeValid
  <2> QED BY <2>1 DEF Judge, Abort, GoTo, Keeps, result, database
<1>4. CASE \/ ReadShortRow(r) \/ ValidateBroken(r) \/ InsertConflict(r) \/ InsertDeadlock(r)
           \/ InsertFails(r) \/ PublishFails(r) \/ CommitFails(r)
           \/ CommitUnconfirmed(r)
  <2>1. /\ Abort(r, "error")
        /\ UNCHANGED <<route, payload, row, result, published>>
        /\ leads' = leads \/ leads' = leads \cup pending[r]
    BY <1>4
    DEF ReadShortRow, ValidateBroken, InsertConflict, InsertDeadlock, InsertFails,
        PublishFails, CommitFails, CommitUnconfirmed, database
  <2> QED BY <1>1, <2>1 DEF Abort, GoTo, Keeps, row, result
<1>5. CASE Insert(r)
  BY <1>5 DEF Insert, GoTo, Keeps, row, result, database
<1>6. CASE Commit(r)
  BY <1>1, <1>6 DEF Commit, GoTo, Keeps, row, result
<1>7. CASE InsertRejected(r)
  BY <1>7 DEF InsertRejected, Abort, NextRow, GoTo, Keeps, database
<1>8. CASE InsertSwallowed(r) \/ InsertBroken(r)
  BY <1>8 DEF InsertSwallowed, InsertBroken, Swallow, NextRow, GoTo, Keeps, database
<1>9. CASE Publish(r)
  BY <1>1, <1>9 DEF Publish, NextRow, GoTo, Keeps
<1> QED
  BY <1>2, <1>3, <1>4, <1>5, <1>6, <1>7, <1>8, <1>9 DEF Handle

LEMMA OwnReceive ==
    ASSUME TypeInv, NEW r \in Requests, RequestInv(r), Receive(r)
    PROVE  RequestInv(r)'
<1> USE DEF TypeInv, TypeOK
<1>1. PICK handler \in Routes, p \in Payloads :
         /\ handler # "create_leads_batch" => Len(p) = 1
         /\ route' = [route EXCEPT ![r] = handler]
         /\ payload' = [payload EXCEPT ![r] = p]
         /\ GoTo(r, IF p = <<>> THEN "commit" ELSE "validate")
  BY DEF Receive
<1>2. /\ pc[r] = "unsent" /\ pc'[r] \in {"commit", "validate"}
      /\ route'[r] = handler /\ payload'[r] = p
      /\ UNCHANGED <<row, pending, broken, result, reply, database>>
  BY <1>1 DEF Receive, GoTo
<1>3. pending[r] = {} /\ queued[r] = {} /\ refused[r] = {} /\ originals[r] = {}
      /\ ~broken[r] /\ reply[r] = "none"
  BY <1>2 DEF RequestInv, RowsInv, SingleInv, BuildInv
<1>4. RowsInv(r)'
  BY <1>2, <1>3 DEF RequestInv, RowsInv, row, database
<1>5. SingleInv(r)'
  BY <1>1, <1>2, <1>3 DEF SingleInv, result
<1>6. BuildInv(r)' /\ AnswerInv(r)'
  BY <1>2, <1>3 DEF BuildInv, AnswerInv, Queued, Refused, result
<1> QED BY <1>4, <1>5, <1>6 DEF RequestInv

\* A verdict about a lead that refers to known leads only.
LEMMA OwnJudge ==
    ASSUME TypeInv, NEW r \in Requests, RequestInv(r), pc[r] = "validate",
           NEW v, NEW original, Judge(r, v, original),
           \A i \in original : Known(r, i)
    PROVE  RequestInv(r)'
<1> USE DEF TypeInv, TypeOK
<1>1. /\ verdict'[r] = v /\ cited'[r] = original
      /\ UNCHANGED <<route, payload, at, leads, published>>
      /\ reply[r] = "none"
  BY DEF Judge, database, RequestInv, BuildInv
<1>2. CASE GoTo(r, "insert") /\ UNCHANGED <<pending, broken, result, reply>>
  <2>1. pc'[r] = "insert"
    BY <1>2 DEF GoTo
  <2>2. RowsInv(r)' /\ SingleInv(r)'
    BY <1>1, <1>2, <2>1 DEF RequestInv, RowsInv, SingleInv, Working, result
  <2>3. BuildInv(r)' /\ AnswerInv(r)'
    BY <1>1, <1>2, <2>1
    DEF RequestInv, BuildInv, AnswerInv, Queued, Refused, Known, result
  <2> QED BY <2>2, <2>3 DEF RequestInv
<1>3. CASE /\ route[r] = "create_lead"
           /\ Abort(r, "rejected")
           /\ originals' = [originals EXCEPT ![r] = original]
  <2>1. /\ pc'[r] = "answered" /\ pending'[r] = {} /\ reply'[r] = "rejected"
        /\ originals'[r] = original /\ broken'[r] = broken[r]
    BY <1>3 DEF Abort, GoTo
  <2>2. ~broken[r] /\ pending[r] = {}
    BY <1>3 DEF RequestInv, SingleInv
  <2>3. AnswerInv(r)'
    BY <1>1, <2>1, <2>2 DEF AnswerInv, Known
  <2> QED BY <1>1, <2>1, <2>2, <2>3, EndsRequest
<1>4. CASE /\ route[r] = "receive_webhook" /\ v = "duplicate"
           /\ GoTo(r, "commit")
           /\ refused' = [refused EXCEPT ![r] = {Id(r)}]
           /\ originals' = [originals EXCEPT ![r] = original]
           /\ UNCHANGED <<pending, broken, queued, reply>>
  <2>1. /\ pc'[r] = "commit" /\ refused'[r] = {Id(r)} /\ originals'[r] = original
    BY <1>4 DEF GoTo
  <2>2. RowsInv(r)' /\ SingleInv(r)'
    BY <1>1, <1>4, <2>1 DEF RequestInv, RowsInv, SingleInv, Working
  <2>3. BuildInv(r)' /\ AnswerInv(r)'
    BY <1>1, <1>4, <2>1
    DEF RequestInv, BuildInv, AnswerInv, Queued, Refused, Known
  <2> QED BY <2>2, <2>3 DEF RequestInv
<1> QED
  BY <1>2, <1>3, <1>4 DEF Judge

\* A failure: nothing has been promised.
LEMMA OwnAbort ==
    ASSUME TypeInv, NEW r \in Requests, RequestInv(r),
           \/ ReadShortRow(r) \/ ValidateBroken(r) \/ InsertConflict(r) \/ InsertDeadlock(r)
           \/ InsertFails(r) \/ PublishFails(r) \/ CommitFails(r)
           \/ CommitUnconfirmed(r)
    PROVE  RequestInv(r)'
<1> USE DEF TypeInv, TypeOK
<1>1. /\ Abort(r, "error")
      /\ UNCHANGED <<route, payload, row, result, published>>
  BY DEF ReadShortRow, ValidateBroken, InsertConflict, InsertDeadlock, InsertFails,
         PublishFails, CommitFails, CommitUnconfirmed, database
<1>2. /\ pc'[r] = "answered" /\ pending'[r] = {} /\ reply'[r] = "error"
      /\ broken'[r] = broken[r]
  BY <1>1 DEF Abort, GoTo
<1>3. AnswerInv(r)'
  BY <1>2 DEF AnswerInv
<1> QED
  BY <1>1, <1>2, <1>3, EndsRequest DEF RequestInv, RowsInv, SingleInv

LEMMA OwnCommit ==
    ASSUME TypeInv, NEW r \in Requests, RequestInv(r), Commit(r)
    PROVE  RequestInv(r)'
<1> USE DEF TypeInv, TypeOK
<1>1. /\ pc[r] = "commit" /\ ~broken[r] /\ leads' = leads \cup pending[r]
      /\ UNCHANGED <<route, payload, row, broken, result, published>>
  BY DEF Commit
<1>2. pc'[r] = "answered" /\ pending'[r] = {} /\ reply'[r] = "ok"
  BY DEF Commit, GoTo
<1>3. AnswerInv(r)'
  BY <1>1, <1>2
  DEF RequestInv, BuildInv, AnswerInv, Queued, Refused, Known, row, result
<1> QED
  BY <1>1, <1>2, <1>3, EndsRequest DEF RequestInv, RowsInv

\* The next row of a batch, or the commit; a single lead has no next row.
LEMMA NextRowFacts ==
    ASSUME TypeInv, NEW r \in Requests, NextRow(r)
    PROVE  /\ \/ pc'[r] = "validate" /\ at'[r] = at[r] + 1
              \/ pc'[r] = "commit" /\ at'[r] = at[r]
           /\ Len(payload[r]) = 1 => pc'[r] = "commit"
<1>1. at[r] \in Nat \ {0}
  BY DEF TypeInv, TypeOK
<1>4. Len(payload[r]) \in Nat
  <2>1. payload[r] \in Payloads \/ payload[r] = <<>>
    BY DEF TypeInv, TypeOK
  <2> QED BY <2>1, PayloadsAssumption
<1>2. CASE at[r] < Len(payload[r])
  <2>1. pc' = [pc EXCEPT ![r] = "validate"] /\ at' = [at EXCEPT ![r] = at[r] + 1]
    BY <1>2 DEF NextRow, GoTo
  <2>2. Len(payload[r]) # 1
    <3>1. \A a \in Nat \ {0}, n \in Nat : a < n => n # 1
      OBVIOUS
    <3> QED BY <1>1, <1>2, <1>4, <3>1
  <2>3. pc'[r] = "validate" /\ at'[r] = at[r] + 1
    BY <2>1 DEF TypeInv, TypeOK
  <2> QED BY <2>2, <2>3
<1>3. CASE ~(at[r] < Len(payload[r]))
  BY <1>3 DEF NextRow, GoTo, TypeInv, TypeOK
<1> QED BY <1>2, <1>3

LEMMA OwnInsert ==
    ASSUME TypeInv, NEW r \in Requests, RequestInv(r), Insert(r)
    PROVE  RequestInv(r)'
<1> USE DEF TypeInv, TypeOK
<1>1. /\ pc[r] = "insert" /\ pc'[r] = "publish" /\ ~broken[r] /\ reply[r] = "none"
      /\ pending'[r] = pending[r] \cup {NewRow(r)}
      /\ UNCHANGED <<route, payload, row, broken, result, reply, database>>
  BY DEF Insert, GoTo, RequestInv, BuildInv
<1>2. NewRow(r).id = Id(r) /\ NewRow(r).status = "VALIDATED" /\ Id(r)[1] = r
  BY DEF Insert, NewRow, Id
<1>3. RowsInv(r)'
  BY <1>1, <1>2 DEF RequestInv, RowsInv, Working, Id, row, database
<1>4. SingleInv(r)'
  BY <1>1 DEF RequestInv, SingleInv, Working, result
<1>5. BuildInv(r)' /\ AnswerInv(r)'
  BY <1>1
  DEF RequestInv, BuildInv, AnswerInv, Queued, Refused, Known, result, database
<1> QED BY <1>3, <1>4, <1>5 DEF RequestInv

LEMMA OwnReject ==
    ASSUME TypeInv, NEW r \in Requests, RequestInv(r), InsertRejected(r)
    PROVE  RequestInv(r)'
<1> USE DEF TypeInv, TypeOK
<1>1. /\ pc[r] = "insert" /\ ~broken[r] /\ verdict[r] # "valid"
      /\ refused'[r] = refused[r] \cup {Id(r)}
      /\ originals'[r] = originals[r] \cup cited[r]
      /\ UNCHANGED <<route, payload, verdict, cited, queued, leads, published>>
      /\ reply[r] = "none"
  BY DEF InsertRejected, database, RequestInv, BuildInv
<1>2. CASE route[r] = "create_lead" /\ Abort(r, "rejected") /\ UNCHANGED at
  <2>1. /\ pc'[r] = "answered" /\ pending'[r] = {} /\ reply'[r] = "rejected"
        /\ broken'[r] = broken[r]
    BY <1>2 DEF Abort, GoTo
  <2>2. pending[r] = {}
    BY <1>1, <1>2 DEF RequestInv, SingleInv
  <2>3. AnswerInv(r)'
    BY <1>1, <2>1, <2>2 DEF RequestInv, BuildInv, AnswerInv, Known
  <2> QED BY <1>1, <2>1, <2>3, EndsRequest
<1>3. CASE /\ route[r] # "create_lead"
           /\ pending' = [pending EXCEPT ![r] = @ \cup {NewRow(r)}]
           /\ NextRow(r)
           /\ UNCHANGED <<broken, reply>>
  <2>1. /\ \/ pc'[r] = "validate" /\ at'[r] = at[r] + 1
           \/ pc'[r] = "commit" /\ at'[r] = at[r]
        /\ Len(payload[r]) = 1 => pc'[r] = "commit"
    BY <1>3, NextRowFacts
  <2>2. /\ NewRow(r).id = Id(r) /\ NewRow(r).status = "REJECTED" /\ Id(r)[1] = r
        /\ pending'[r] = pending[r] \cup {NewRow(r)}
    BY <1>1, <1>3 DEF NewRow, Id
  <2>3. at[r] \in Nat /\ \A i \in published : i[2] \in Nat
    BY DEF Ids
  <2>4. RowsInv(r)'
    BY <1>1, <1>3, <2>1, <2>2, <2>3 DEF RequestInv, RowsInv, Working
  <2>5. SingleInv(r)'
    BY <1>1, <1>3, <2>1 DEF RequestInv, SingleInv, Working
  <2>6. BuildInv(r)' /\ AnswerInv(r)'
    BY <1>1, <1>3, <2>1, <2>2
    DEF RequestInv, BuildInv, AnswerInv, Queued, Refused, Known
  <2> QED BY <2>4, <2>5, <2>6 DEF RequestInv
<1> QED BY <1>2, <1>3 DEF InsertRejected

LEMMA OwnSwallow ==
    ASSUME TypeInv, NEW r \in Requests, RequestInv(r),
           InsertSwallowed(r) \/ InsertBroken(r)
    PROVE  RequestInv(r)'
<1> USE DEF TypeInv, TypeOK
<1>1. /\ pc[r] = "insert" /\ Swallow(r) /\ broken'[r] = TRUE
      /\ route[r] = "create_leads_batch"
  BY DEF InsertSwallowed, InsertBroken, RequestInv, SingleInv
<1>2. /\ pending'[r] = {} /\ reply[r] = "none" /\ reply' = reply
      /\ UNCHANGED <<route, payload, verdict, cited, queued, leads, published>>
  BY <1>1 DEF Swallow, database, RequestInv, BuildInv
<1>3. \/ pc'[r] = "validate" /\ at'[r] = at[r] + 1
      \/ pc'[r] = "commit" /\ at'[r] = at[r]
  BY <1>1, NextRowFacts DEF Swallow
<1>4. at[r] \in Nat /\ \A i \in published : i[2] \in Nat
  BY DEF Ids
<1>5. RowsInv(r)' /\ SingleInv(r)'
  BY <1>1, <1>2, <1>3, <1>4 DEF RequestInv, RowsInv, SingleInv, Working
<1>6. BuildInv(r)' /\ AnswerInv(r)'
  BY <1>1, <1>2, <1>3
  DEF RequestInv, BuildInv, AnswerInv, Queued, Refused, Known
<1> QED BY <1>5, <1>6 DEF RequestInv

LEMMA OwnPublish ==
    ASSUME TypeInv, NEW r \in Requests, RequestInv(r), Publish(r)
    PROVE  RequestInv(r)'
<1> USE DEF TypeInv, TypeOK
<1>1. /\ pc[r] = "publish" /\ reply[r] = "none"
      /\ published' = published \cup {Id(r)}
      /\ queued'[r] = queued[r] \cup {Id(r)}
      /\ UNCHANGED <<route, payload, verdict, cited, pending, broken, refused,
                     originals, reply, leads>>
  BY DEF Publish, RequestInv, BuildInv
<1>2. /\ \/ pc'[r] = "validate" /\ at'[r] = at[r] + 1
         \/ pc'[r] = "commit" /\ at'[r] = at[r]
      /\ Len(payload[r]) = 1 => pc'[r] = "commit"
  BY NextRowFacts DEF Publish
<1>3. at[r] \in Nat /\ Id(r)[2] = at[r] /\ \A i \in published : i[2] \in Nat
  BY DEF Id, Ids
<1>4. RowsInv(r)' /\ SingleInv(r)'
  BY <1>1, <1>2, <1>3 DEF RequestInv, RowsInv, SingleInv, Working
<1>5. \E x \in pending[r] : x.id = Id(r) /\ x.status = "VALIDATED"
  BY <1>1 DEF RequestInv, RowsInv
<1>6. BuildInv(r)' /\ AnswerInv(r)'
  BY <1>1, <1>2, <1>5
  DEF RequestInv, BuildInv, AnswerInv, Queued, Refused, Known
<1> QED BY <1>4, <1>6 DEF RequestInv

\* The process dies: every request in service is lost.
LEMMA CrashKeeps ==
    ASSUME TypeInv, NEW q \in Requests, RequestInv(q), Crash
    PROVE  RequestInv(q)'
<1> USE DEF TypeInv, TypeOK
<1>1. UNCHANGED <<route, payload, row, broken, result, leads, published>>
  BY DEF Crash, database
<1>2. CASE q \in InService
  <2>1. /\ pc'[q] = "answered" /\ pending'[q] = {} /\ reply'[q] = "lost"
        /\ pc[q] # "unsent"
    BY <1>2 DEF Crash, InService
  <2>2. AnswerInv(q)'
    BY <2>1 DEF AnswerInv
  <2> QED BY <1>1, <2>1, <2>2, EndsRequest DEF RequestInv, SingleInv
<1>3. CASE q \notin InService
  <2>1. pc'[q] = pc[q] /\ reply'[q] = reply[q] /\ pending'[q] = {}
    BY <1>3 DEF Crash
  <2>2. pending[q] = {}
    BY <1>3 DEF InService, RequestInv, RowsInv
  <2>3. Keeps(q)
    BY <1>1, <2>1, <2>2 DEF Keeps, row, result
  <2> QED BY <2>3, KeepsRequest
<1> QED BY <1>2, <1>3

LEMMA ResponseInit == Init => ResponseInv
BY DEF Init, ResponseInv, RequestInv, RowsInv, SingleInv, BuildInv, AnswerInv,
       Queued, Refused, Known, Working

LEMMA OwnStep ==
    ASSUME TypeInv, NEW r \in Requests, RequestInv(r), Handle(r)
    PROVE  RequestInv(r)'
<1>1. CASE JudgeInvalid(r) \/ JudgeValid(r)
  <2>1. \E v : pc[r] = "validate" /\ Judge(r, v, {})
    BY <1>1 DEF JudgeInvalid, JudgeValid
  <2> QED BY <2>1, OwnJudge
<1>2. CASE JudgeDuplicate(r) \/ JudgeSimilar(r)
  <2>1. PICK x \in leads \cup pending[r] : \E v :
           pc[r] = "validate" /\ Judge(r, v, {x.id})
    BY <1>2 DEF JudgeDuplicate, JudgeSimilar, Duplicate, Similar, Visible
  <2>2. \A i \in {x.id} : Known(r, i)
    BY <2>1 DEF Known
  <2> QED BY <2>1, <2>2, OwnJudge
<1> QED
  BY <1>1, <1>2, OwnInsert, OwnReject, OwnSwallow, OwnPublish, OwnCommit,
     OwnAbort
  DEF Handle

LEMMA ResponseStep == TypeInv /\ ResponseInv /\ [Next]_vars => ResponseInv'
<1> SUFFICES ASSUME TypeInv, ResponseInv, [Next]_vars, NEW q \in Requests
             PROVE  RequestInv(q)'
  BY DEF ResponseInv
<1>1. RequestInv(q)
  BY DEF ResponseInv
<1>2. CASE UNCHANGED vars
  <2>1. Keeps(q)
    BY <1>2 DEF vars, row, result, database, Keeps
  <2> QED BY <1>1, <2>1, KeepsRequest
<1>3. ASSUME NEW r \in Requests, Receive(r) \/ Handle(r)
      PROVE  RequestInv(q)'
  <2>1. RequestInv(r)
    BY DEF ResponseInv
  <2>2. CASE r = q
    BY <1>1, <1>3, <2>2, OwnReceive, OwnStep
  <2>3. CASE r # q
    <3>1. Keeps(q)
      BY <1>3, <2>1, <2>3, HandleKeeps
    <3> QED BY <1>1, <3>1, KeepsRequest
  <2> QED BY <2>2, <2>3
<1>4. ASSUME NEW x \in leads, Embed(x)
      PROVE  RequestInv(q)'
  <2>1. Keeps(q)
    BY <1>4 DEF Embed, row, result, Keeps
  <2> QED BY <1>1, <2>1, KeepsRequest
<1>5. CASE Crash
  BY <1>1, <1>5, CrashKeeps
<1> QED BY <1>2, <1>3, <1>4, <1>5 DEF Next

LEMMA ResponseInvariant == Spec => [](TypeInv /\ ResponseInv)
<1>1. Init => TypeInv /\ ResponseInv
  BY TypeInit, ResponseInit
<1>2. TypeInv /\ ResponseInv /\ [Next]_vars => (TypeInv /\ ResponseInv)'
  BY TypeStep, ResponseStep
<1> QED BY <1>1, <1>2, PTL DEF Spec

\* A success response tells the truth, whatever is sent and whatever fails:
\* the leads it lists are stored and published, and the rejections it lists
\* are stored as REJECTED, but for the duplicate that receive_webhook drops.
THEOREM ResponsesTrue == Spec => []ResponseTrue
<1>1. ResponseInv => ResponseTrue
  BY DEF ResponseInv, RequestInv, AnswerInv, ResponseTrue
<1> QED BY <1>1, ResponseInvariant, PTL

\* A rejection refers to a stored lead, never to one of a rolled back
\* transaction: create_lead reads its own transaction while it is empty.
THEOREM OriginalsStored == Spec => []OriginalStored
<1>1. ResponseInv => OriginalStored
  BY DEF ResponseInv, RequestInv, AnswerInv, OriginalStored
<1> QED BY <1>1, ResponseInvariant, PTL

-----------------------------------------------------------------------------
(***************************************************************************)
(* The intake implements IntakeContract.                                   *)
(***************************************************************************)
States == [i \in LeadIds |-> IntakeState(i)]
Flushes(rows, i) == \E x \in rows : x.id = i

\* The abstract operations, in the words of the intake.
LEMMA ContractSubmit ==
    ASSUME NEW l \in LeadIds, IntakeState(l) = "none",
           States' = [States EXCEPT ![l] = "open"]
    PROVE  Contract!Next
BY DEF Contract!Next, Contract!Submit, States

LEMMA ContractFinish ==
    ASSUME NEW batch \in SUBSET LeadIds, NEW outcome \in {"committed", "failed"},
           \A l \in batch : IntakeState(l) = "open",
           \A l \in batch, k \in LeadIds :
              IntakeState(k) = "open" /\ k[1] = l[1] => k \in batch,
           \A l \in LeadIds :
              IntakeState(l)' = IF l \in batch THEN outcome ELSE IntakeState(l)
    PROVE  Contract!Next
<1>1. Contract!Finish(batch, outcome)
  BY DEF Contract!Finish
<1> QED BY <1>1 DEF Contract!Next

LEMMA LeadIdsType == \A i \in LeadIds : i[1] \in Requests
BY DEF LeadIds

\* A step that leaves the published leads where they are.
LEMMA StatesSame ==
    ASSUME UNCHANGED <<leads, published>>,
           \A i \in LeadIds : i \in published =>
              (Flushes(pending'[i[1]], i) <=> Flushes(pending[i[1]], i))
    PROVE  UNCHANGED States
<1>1. \A i \in LeadIds : IntakeState(i)' = IntakeState(i)
  BY DEF IntakeState, Flushes
<1> QED BY <1>1 DEF States

\* Transactions that are rolled back.
LEMMA StatesFailed ==
    ASSUME NEW ended \in SUBSET Requests, UNCHANGED <<leads, published>>,
           \A q \in Requests :
              pending'[q] = IF q \in ended THEN {} ELSE pending[q]
    PROVE  Contract!Next
<1> DEFINE batch == {i \in LeadIds : i[1] \in ended /\ IntakeState(i) = "open"}
<1>1. \A l \in LeadIds :
         IntakeState(l)' = IF l \in batch THEN "failed" ELSE IntakeState(l)
  <2> TAKE l \in LeadIds
  <2>1. l[1] \in Requests
    BY LeadIdsType
  <2> QED BY <2>1 DEF IntakeState
<1>2. /\ \A l \in batch : IntakeState(l) = "open"
      /\ \A l \in batch, k \in LeadIds :
            IntakeState(k) = "open" /\ k[1] = l[1] => k \in batch
  OBVIOUS
<1>3. batch \in SUBSET LeadIds
  OBVIOUS
<1> HIDE DEF batch
<1> QED BY <1>1, <1>2, <1>3, ContractFinish

\* The transaction of r is committed.
LEMMA StatesCommitted ==
    ASSUME ResponseInv, NEW r \in Requests, UNCHANGED published,
           leads' = leads \cup pending[r],
           \A q \in Requests : pending'[q] = IF q = r THEN {} ELSE pending[q]
    PROVE  Contract!Next
<1> DEFINE batch == {i \in LeadIds : i[1] = r /\ IntakeState(i) = "open"}
<1>1. \A l \in LeadIds :
         IntakeState(l)' = IF l \in batch THEN "committed" ELSE IntakeState(l)
  <2> TAKE l \in LeadIds
  <2>1. l[1] \in Requests /\ \A x \in pending[r] : x.id[1] = r
    BY LeadIdsType DEF ResponseInv, RequestInv, RowsInv
  <2> QED BY <2>1 DEF IntakeState
<1>2. /\ \A l \in batch : IntakeState(l) = "open"
      /\ \A l \in batch, k \in LeadIds :
            IntakeState(k) = "open" /\ k[1] = l[1] => k \in batch
  OBVIOUS
<1>3. batch \in SUBSET LeadIds
  OBVIOUS
<1> HIDE DEF batch
<1> QED BY <1>1, <1>2, <1>3, ContractFinish

\* A lead is published in the open transaction that has flushed it.
LEMMA StatesPublish ==
    ASSUME TypeInv, ResponseInv, NEW r \in Requests, Publish(r)
    PROVE  Contract!Next
<1>1. Id(r) \in LeadIds
  <2>1. at[r] \in DOMAIN payload[r]
    BY DEF Publish, TypeInv, AtInv
  <2>2. payload[r] \in Payloads
    BY <2>1 DEF TypeInv, TypeOK
  <2>3. Id(r) \in {<<r, n>> : n \in DOMAIN payload[r]}
    BY <2>1 DEF Id
  <2> DEFINE batches == {{<<q, n>> : n \in DOMAIN p} : q \in Requests, p \in Payloads}
  <2>4. {<<r, n>> : n \in DOMAIN payload[r]} \in batches
    BY <2>2
  <2>5. LeadIds = UNION batches
    BY DEF LeadIds
  <2> HIDE DEF batches
  <2> QED BY <2>3, <2>4, <2>5
<1>2. PICK l \in LeadIds : l = Id(r)
  BY <1>1
<1>3. /\ l[1] = r
      /\ l \notin published
      /\ \A x \in leads : x.id # l
      /\ Flushes(pending[r], l)
  <2>1. pc[r] = "publish" /\ l[1] = r /\ l[2] = at[r] /\ at[r] \in Nat
    BY <1>2 DEF Publish, Id, TypeInv, TypeOK
  <2>2. \A i \in published : i[1] = r => i[2] < at[r]
    BY <2>1 DEF ResponseInv, RequestInv, RowsInv, Working
  <2>3. ~(at[r] < at[r])
    BY <2>1
  <2> QED
    BY <1>2, <2>1, <2>2, <2>3 DEF ResponseInv, RequestInv, RowsInv, Flushes
<1>4. published' = published \cup {l} /\ UNCHANGED <<pending, leads>>
  BY <1>2 DEF Publish
<1>5. IntakeState(l) = "none" /\ IntakeState(l)' = "open"
  BY <1>3, <1>4 DEF IntakeState, Flushes
<1>6. \A i \in LeadIds : i # l => IntakeState(i)' = IntakeState(i)
  BY <1>4 DEF IntakeState
<1>7. States' = [States EXCEPT ![l] = "open"]
  BY <1>5, <1>6 DEF States
<1> QED BY <1>5, <1>7, ContractSubmit

LEMMA ContractStep ==
    ASSUME TypeInv, ResponseInv, [Next]_vars
    PROVE  Contract!Next \/ UNCHANGED States
<1> USE DEF TypeInv, TypeOK
<1>1. CASE UNCHANGED <<leads, published, pending>>
  BY <1>1, StatesSame
<1>2. ASSUME NEW r \in Requests, Insert(r) \/ InsertRejected(r),
             pending' = [pending EXCEPT ![r] = @ \cup {NewRow(r)}]
      PROVE  UNCHANGED States
  <2>1. pc[r] = "insert" /\ UNCHANGED <<leads, published>>
    BY <1>2 DEF Insert, InsertRejected, database
  <2>2. NewRow(r).id = Id(r) /\ Id(r)[1] = r /\ Id(r)[2] = at[r] /\ at[r] \in Nat
    BY DEF NewRow, Id
  <2>3. Id(r) \notin published
    <3>1. \A i \in published : i[1] = r => i[2] < at[r]
      BY <2>1 DEF ResponseInv, RequestInv, RowsInv, Working
    <3>2. ~(at[r] < at[r])
      BY <2>2
    <3> QED BY <2>2, <3>1, <3>2
  <2> QED BY <1>2, <2>1, <2>2, <2>3, LeadIdsType, StatesSame DEF Flushes
<1>3. ASSUME NEW r \in Requests, UNCHANGED <<leads, published>>,
             pending' = [pending EXCEPT ![r] = {}]
      PROVE  Contract!Next
  <2>1. \A q \in Requests :
           pending'[q] = IF q \in {r} THEN {} ELSE pending[q]
    BY <1>3
  <2>2. {r} \in SUBSET Requests
    OBVIOUS
  <2> QED BY <1>3, <2>1, <2>2, StatesFailed
<1>4. ASSUME NEW r \in Requests, Commit(r) \/ CommitUnconfirmed(r)
      PROVE  Contract!Next
  <2>1. /\ leads' = leads \cup pending[r] /\ UNCHANGED published
        /\ pending' = [pending EXCEPT ![r] = {}]
    BY <1>4 DEF Commit, CommitUnconfirmed, Abort
  <2> QED BY <2>1, StatesCommitted
<1>5. CASE Crash
  <2>1. /\ \A q \in Requests : pending'[q] = IF q \in Requests THEN {} ELSE pending[q]
        /\ UNCHANGED <<leads, published>>
    BY <1>5 DEF Crash, database
  <2> QED BY <2>1, StatesFailed
<1>6. ASSUME NEW r \in Requests, Receive(r) \/ Handle(r)
      PROVE  Contract!Next \/ UNCHANGED States
  <2>1. CASE Receive(r)
    BY <1>1, <2>1 DEF Receive, database
  <2>2. CASE \/ JudgeInvalid(r) \/ JudgeDuplicate(r) \/ JudgeSimilar(r)
             \/ JudgeValid(r)
    <3>1. \E v : \E original : Judge(r, v, original)
      BY <2>2 DEF JudgeInvalid, JudgeDuplicate, JudgeSimilar, JudgeValid
    <3>2. /\ UNCHANGED <<leads, published>>
          /\ pending' = pending \/ pending' = [pending EXCEPT ![r] = {}]
      BY <3>1 DEF Judge, Abort, database
    <3> QED BY <1>1, <1>3, <3>2
  <2>3. CASE \/ ReadShortRow(r) \/ ValidateBroken(r) \/ InsertConflict(r) \/ InsertDeadlock(r)
             \/ InsertFails(r) \/ PublishFails(r) \/ CommitFails(r)
    <3>1. UNCHANGED <<leads, published>> /\ pending' = [pending EXCEPT ![r] = {}]
      BY <2>3
      DEF ReadShortRow, ValidateBroken, InsertConflict, InsertDeadlock, InsertFails,
          PublishFails, CommitFails, Abort, database
    <3> QED BY <1>3, <3>1
  <2>4. CASE Insert(r)
    BY <1>2, <2>4 DEF Insert
  <2>5. CASE InsertRejected(r)
    <3>1. \/ pending' = [pending EXCEPT ![r] = @ \cup {NewRow(r)}]
          \/ UNCHANGED <<leads, published>> /\ pending' = [pending EXCEPT ![r] = {}]
      BY <2>5 DEF InsertRejected, Abort, database
    <3> QED BY <1>2, <1>3, <2>5, <3>1
  <2>6. CASE InsertSwallowed(r) \/ InsertBroken(r)
    <3>1. UNCHANGED <<leads, published>> /\ pending' = [pending EXCEPT ![r] = {}]
      BY <2>6 DEF InsertSwallowed, InsertBroken, Swallow, database
    <3> QED BY <1>3, <3>1
  <2> QED
    BY <1>4, <1>6, <2>1, <2>2, <2>3, <2>4, <2>5, <2>6, StatesPublish DEF Handle
<1> QED
  BY <1>1, <1>5, <1>6 DEF Next, vars, database, Embed

\* Each lead of each request goes through the contract that LeadPipeline
\* starts from: published in its open transaction, which then commits or fails
\* for all leads of the request at once, whatever fails in the handlers.
THEOREM ImplementsContract == Spec => ContractKept
<1>1. Init => Contract!Init
  BY DEF Init, Contract!Init, IntakeState
<1>2. TypeInv /\ ResponseInv /\ [Next]_vars =>
         [Contract!Next]_[i \in LeadIds |-> IntakeState(i)]
  BY ContractStep DEF States
<1> QED
  BY <1>1, <1>2, ResponseInvariant, PTL DEF Spec, ContractKept, Contract!Spec
=============================================================================
