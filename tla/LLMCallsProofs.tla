--------------------------- MODULE LLMCallsProofs ---------------------------
(***************************************************************************)
(* The request budget of LLMCalls and the waits of its retries, for every  *)
(* retry policy.                                                           *)
(***************************************************************************)
EXTENDS LLMCalls, TLAPS

\* Requests paid for n finished calls at the most.
Paid(n) == MaxAttempts * n

\* What has been spent, by the state of the task: full calls for the agents
\* that are done and for the runs that have failed, and the call that is on.
BudgetInv ==
    /\ status = "running" =>
          done < AgentCount /\ asked <= Paid(done + run) + (attempt - 1)
    /\ status \in {"failed", "dead"} =>
          done < AgentCount /\ asked <= Paid(done + run) + MaxAttempts
    /\ status = "complete" => asked <= Paid(done + run)

LEMMA PaidFacts ==
    \A m, n \in Nat :
        /\ Paid(n) \in Nat
        /\ Paid(n + 1) = Paid(n) + MaxAttempts
        /\ m <= n => Paid(m) <= Paid(n)
<1> TAKE m, n \in Nat
<1>1. MaxAttempts \in Nat
  BY CallsAssumption
<1>2. Paid(n) \in Nat /\ Paid(n + 1) = Paid(n) + MaxAttempts
  BY <1>1 DEF Paid
<1>3. m <= n => Paid(m) <= Paid(n)
  BY <1>1 DEF Paid
<1> QED BY <1>2, <1>3

IInv == TypeOK /\ BudgetInv

LEMMA BudgetInit == Init => IInv
<1>1. Paid(0) \in Nat
  BY PaidFacts
<1> QED
  BY <1>1, CallsAssumption DEF Init, IInv, TypeOK, BudgetInv, Errors

\* A recognised failure takes one request at the most.
LEMMA AgainStep ==
    ASSUME IInv, status = "running", NEW kind \in Errors, NEW wait \in Nat,
           Again(kind, wait), asked' \in {asked, asked + 1},
           UNCHANGED <<run, done>>
    PROVE  IInv'
<1>1. done + run \in Nat /\ Paid(done + run) \in Nat
  BY PaidFacts DEF IInv, TypeOK
<1>2. MaxAttempts \in Nat /\ Multiplier \in Nat
  BY CallsAssumption
<1>3. delay * Multiplier \in Nat
  BY <1>2 DEF IInv, TypeOK
<1>4. Paid(done + run)' = Paid(done + run)
  BY DEF Paid
<1>5. CASE attempt < MaxAttempts
  BY <1>1, <1>2, <1>3, <1>4, <1>5 DEF Again, IInv, TypeOK, BudgetInv
<1>6. CASE ~(attempt < MaxAttempts)
  BY <1>1, <1>2, <1>4, <1>6 DEF Again, IInv, TypeOK, BudgetInv
<1> QED
  BY <1>5, <1>6

LEMMA AnsweredStep == IInv /\ Answered => IInv'
<1> SUFFICES ASSUME IInv, Answered PROVE IInv'
  OBVIOUS
<1>1. /\ done + run \in Nat
      /\ MaxAttempts \in Nat \ {0} /\ AgentCount \in Nat /\ InitialDelay \in Nat
  BY CallsAssumption DEF IInv, TypeOK
<1>2. /\ Paid(done + run) \in Nat
      /\ Paid((done + run) + 1) = Paid(done + run) + MaxAttempts
  BY <1>1, PaidFacts
<1>3. Paid(done + run)' = Paid((done + run) + 1)
  BY <1>1 DEF Paid, Answered, IInv, TypeOK
<1>4. done < AgentCount /\ asked <= Paid(done + run) + (attempt - 1)
  BY DEF Answered, IInv, BudgetInv
<1>5. asked' <= Paid(done + run)'
  BY <1>1, <1>2, <1>3, <1>4 DEF Answered, IInv, TypeOK
<1>6. TypeOK'
  BY <1>1, <1>4 DEF Answered, NewCall, IInv, TypeOK, Errors
<1> QED
  BY <1>1, <1>2, <1>3, <1>4, <1>5, <1>6
  DEF Answered, NewCall, IInv, TypeOK, BudgetInv

LEMMA TaskRetryStep == IInv /\ TaskRetry => IInv'
<1> SUFFICES ASSUME IInv, TaskRetry PROVE IInv'
  OBVIOUS
<1>1. /\ done + run \in Nat
      /\ MaxAttempts \in Nat \ {0} /\ InitialDelay \in Nat
  BY CallsAssumption DEF IInv, TypeOK
<1>2. /\ Paid(done + run) \in Nat
      /\ Paid((done + run) + 1) = Paid(done + run) + MaxAttempts
  BY <1>1, PaidFacts
<1>3. Paid(done + run)' = Paid((done + run) + 1)
  BY <1>1 DEF Paid, TaskRetry, IInv, TypeOK
<1>4. TypeOK'
  BY <1>1, CallsAssumption DEF TaskRetry, NewCall, IInv, TypeOK, Errors
<1> QED
  BY <1>1, <1>2, <1>3, <1>4 DEF TaskRetry, NewCall, IInv, TypeOK, BudgetInv

LEMMA BudgetStep == IInv /\ [Next]_vars => IInv'
<1> SUFFICES ASSUME IInv, [Next]_vars PROVE IInv'
  OBVIOUS
<1>1. CASE UNCHANGED vars
  BY <1>1 DEF IInv, TypeOK, BudgetInv, Paid, vars
<1>2. CASE BadAnswer \/ SimulatedTimeout \/ SimulatedRateLimit \/ RateLimited
  <2>1. \A a \in Nat : Larger(delay, a) \in Nat
    BY DEF Larger, IInv, TypeOK
  <2>2. delay \in Nat /\ RetryAfter \in Nat /\ MinimumWait \in Nat
    BY CallsAssumption DEF IInv, TypeOK
  <2>3. \E kind \in Errors, wait \in Nat : Again(kind, wait)
    BY <1>2, <2>1, <2>2
    DEF BadAnswer, SimulatedTimeout, SimulatedRateLimit, RateLimited, Errors
  <2>4. /\ status = "running"
        /\ asked' \in {asked, asked + 1}
        /\ UNCHANGED <<run, done>>
    BY <1>2 DEF BadAnswer, SimulatedTimeout, SimulatedRateLimit, RateLimited
  <2> QED BY <2>3, <2>4, AgainStep
<1>3. CASE Unclassified \/ DeadLetter
  <2>1. done + run \in Nat /\ Paid(done + run) \in Nat /\ MaxAttempts \in Nat
    BY CallsAssumption, PaidFacts DEF IInv, TypeOK
  <2>2. Paid(done + run)' = Paid(done + run)
    BY <1>3 DEF Unclassified, DeadLetter, Paid
  <2> QED
    BY <1>3, <2>1, <2>2
    DEF Unclassified, DeadLetter, IInv, TypeOK, BudgetInv, Errors
<1> QED
  BY <1>1, <1>2, <1>3, AnsweredStep, TaskRetryStep DEF Next

\* Whatever the policy and whatever the model answers, a lead costs at most
\* MaxAttempts requests for each agent and for each retry of its task
\* (_execute_llm_call, the checkpoint, LEAD_PIPELINE_RETRY_POLICY).
THEOREM BudgetHolds == Spec => []RequestBudget
<1>1. IInv => RequestBudget
  <2> SUFFICES ASSUME IInv PROVE RequestBudget
    OBVIOUS
  <2>1. /\ done + run \in Nat /\ run \in Nat /\ done \in Nat
        /\ AgentCount \in Nat /\ MaxRetries \in Nat
        /\ run <= MaxRetries /\ done <= AgentCount
        /\ MaxAttempts \in Nat
    BY CallsAssumption DEF IInv, TypeOK
  <2>2. /\ Paid((done + run) + 1) = Paid(done + run) + MaxAttempts
        /\ done + run <= AgentCount + MaxRetries =>
              Paid(done + run) <= Paid(AgentCount + MaxRetries)
        /\ (done + run) + 1 <= AgentCount + MaxRetries =>
              Paid((done + run) + 1) <= Paid(AgentCount + MaxRetries)
    BY <2>1, PaidFacts
  <2>3. /\ Paid(done + run) \in Nat /\ Paid(AgentCount + MaxRetries) \in Nat
        /\ asked \in Nat /\ attempt \in 1..MaxAttempts
    BY <2>1, PaidFacts DEF IInv, TypeOK
  <2>4. asked <= Paid(AgentCount + MaxRetries)
    <3>1. CASE status = "complete"
      BY <2>1, <2>2, <2>3, <3>1 DEF IInv, BudgetInv
    <3>2. CASE status # "complete"
      <4>1. done < AgentCount /\ asked <= Paid(done + run) + MaxAttempts
        BY <2>1, <2>3, <3>2 DEF IInv, BudgetInv, TypeOK
      <4> QED BY <2>1, <2>2, <2>3, <4>1
    <3> QED BY <3>1, <3>2
  <2> QED
    BY <2>4 DEF Paid, RequestBudget
<1> QED
  BY <1>1, BudgetInit, BudgetStep, PTL DEF Spec

-----------------------------------------------------------------------------
(***************************************************************************)
(* What the failures leave behind.                                         *)
(***************************************************************************)
LEMMA CallsInvariant == Spec => []IInv
BY BudgetInit, BudgetStep, PTL DEF Spec

\* The run, checkpoint and attempt counters stay within the policy: no run
\* beyond MaxRetries, no attempt beyond MaxAttempts (the loop of
\* _execute_llm_call and the condition of the except block).
THEOREM CallTypes == Spec => []TypeOK
<1>1. IInv => TypeOK
  BY DEF IInv
<1> QED BY <1>1, CallsInvariant, PTL

LEMMA ClassifiedStep == IInv /\ ClassifiedRetried /\ [Next]_vars => ClassifiedRetried'
<1> SUFFICES ASSUME IInv, ClassifiedRetried, [Next]_vars
             PROVE  ClassifiedRetried'
  OBVIOUS
<1>1. attempt \in 1..MaxAttempts /\ MaxAttempts \in Nat
  BY CallsAssumption DEF IInv, TypeOK
<1>2. CASE BadAnswer \/ SimulatedTimeout \/ SimulatedRateLimit \/ RateLimited
  BY <1>1, <1>2
  DEF BadAnswer, SimulatedTimeout, SimulatedRateLimit, RateLimited, Again,
      ClassifiedRetried
<1>3. CASE Answered \/ Unclassified \/ TaskRetry \/ DeadLetter \/ UNCHANGED vars
  BY <1>3
  DEF Answered, Unclassified, TaskRetry, DeadLetter, vars, ClassifiedRetried
<1> QED BY <1>2, <1>3 DEF Next

\* A malformed answer, a timeout or a rate limit reaches the task only when
\* every attempt of the call is used up, under every policy.
THEOREM ClassifiedAreRetried == Spec => []ClassifiedRetried
<1>1. Init => ClassifiedRetried
  BY DEF Init, ClassifiedRetried
<1> QED BY <1>1, ClassifiedStep, CallsInvariant, PTL DEF Spec

-----------------------------------------------------------------------------
(***************************************************************************)
(* The time a task run sleeps.                                             *)
(***************************************************************************)
\* D lists the backoff delays of a call, and none of its waits exceeds W: the
\* delays before the last attempt, and the waits a 429 asks for.
Waits(D, W) ==
    /\ W \in Nat
    /\ D \in [1..MaxAttempts -> Nat]
    /\ D[1] = InitialDelay
    /\ \A k \in 1..(MaxAttempts - 1) : D[k + 1] = D[k] * Multiplier /\ D[k] <= W
    /\ RetryAfter <= W /\ MinimumWait <= W

\* n waits of w seconds.
Slept(w, n) == w * n

LEMMA SleptFacts ==
    \A w, m, n \in Nat :
        /\ Slept(w, n) \in Nat
        /\ Slept(w, n + 1) = Slept(w, n) + w
        /\ m <= n => Slept(w, m) <= Slept(w, n)
        /\ Slept(w, 0) = 0
<1> TAKE w, m, n \in Nat
<1>1. Slept(w, n) \in Nat /\ Slept(w, n + 1) = Slept(w, n) + w /\ Slept(w, 0) = 0
  BY DEF Slept
<1>2. m <= n => Slept(w, m) <= Slept(w, n)
  BY DEF Slept
<1> QED BY <1>1, <1>2

\* All waits of a call.
CallWaits(W) == Slept(W, MaxAttempts - 1)

\* A run has slept at most all waits of the calls that are done, and one wait
\* before each further attempt of the call that is on.
WaitInv(D, W) ==
    /\ delay = D[attempt]
    /\ waited <= Slept(CallWaits(W), done) + Slept(W, attempt - 1)
    /\ status = "complete" => attempt = 1

LEMMA WaitStep ==
    ASSUME NEW D, NEW W, Waits(D, W), IInv, WaitInv(D, W), [Next]_vars
    PROVE  WaitInv(D, W)'
<1> DEFINE full == CallWaits(W)
<1>1. /\ MaxAttempts \in Nat \ {0} /\ MaxAttempts - 1 \in Nat
      /\ InitialDelay \in Nat /\ RetryAfter \in Nat /\ MinimumWait \in Nat
      /\ attempt \in 1..MaxAttempts /\ attempt - 1 \in Nat
      /\ attempt - 1 <= MaxAttempts - 1
      /\ done \in Nat /\ waited \in Nat /\ W \in Nat
  BY CallsAssumption DEF IInv, TypeOK, Waits
<1>8. full \in Nat
  BY <1>1, SleptFacts DEF CallWaits
<1> HIDE DEF full
<1>2. /\ Slept(full, done) \in Nat /\ Slept(W, attempt - 1) \in Nat
      /\ Slept(full, done + 1) = Slept(full, done) + full
      /\ Slept(W, (attempt - 1) + 1) = Slept(W, attempt - 1) + W
      /\ Slept(W, attempt - 1) <= full
      /\ Slept(W, 0) = 0
  <2>1. /\ Slept(full, done) \in Nat /\ Slept(W, attempt - 1) \in Nat
        /\ Slept(full, done + 1) = Slept(full, done) + full
        /\ Slept(W, (attempt - 1) + 1) = Slept(W, attempt - 1) + W
        /\ Slept(W, 0) = 0
    BY <1>1, <1>8, SleptFacts
  <2>2. Slept(W, attempt - 1) <= Slept(W, MaxAttempts - 1)
    BY <1>1, SleptFacts
  <2> QED BY <2>1, <2>2 DEF full, CallWaits
\* The bound before the step, and what is to be shown after it.
<1>9. /\ waited <= Slept(full, done) + Slept(W, attempt - 1)
      /\ delay = D[attempt]
  BY DEF WaitInv, full
<1>10. ASSUME waited' <= Slept(full, done') + Slept(W, attempt' - 1),
              delay' = D[attempt'], status' = "complete" => attempt' = 1
       PROVE  WaitInv(D, W)'
  BY <1>10 DEF WaitInv, full, CallWaits, Slept
<1>3. CASE UNCHANGED vars
  BY <1>3 DEF vars, WaitInv, Slept, CallWaits
<1>4. CASE BadAnswer \/ SimulatedTimeout \/ SimulatedRateLimit \/ RateLimited
  <2>1. UNCHANGED done /\ status = "running" /\ status' \in {"running", "failed"}
    BY <1>4
    DEF BadAnswer, SimulatedTimeout, SimulatedRateLimit, RateLimited, Again
  <2>2. CASE attempt < MaxAttempts
    <3>1. attempt \in 1..(MaxAttempts - 1)
      BY <1>1, <2>2
    <3>2. delay \in Nat /\ delay <= W /\ D[attempt + 1] = delay * Multiplier
      BY <1>9, <3>1 DEF Waits, IInv, TypeOK
    <3>3. \E wait \in {delay, Larger(delay, RetryAfter), Larger(delay, MinimumWait)} :
             waited' = waited + wait
      BY <1>4, <2>2
      DEF BadAnswer, SimulatedTimeout, SimulatedRateLimit, RateLimited, Again
    <3>4. waited' <= waited + W /\ waited' \in Nat
      BY <1>1, <3>2, <3>3 DEF Larger, Waits
    <3>5. attempt' = attempt + 1 /\ delay' = delay * Multiplier
      BY <1>4, <2>2
      DEF BadAnswer, SimulatedTimeout, SimulatedRateLimit, RateLimited, Again
    <3>6. Slept(W, attempt' - 1) = Slept(W, attempt - 1) + W
      <4>1. attempt' - 1 = (attempt - 1) + 1
        BY <1>1, <3>5
      <4> QED BY <1>2, <4>1
    <3>7. waited' <= Slept(full, done') + Slept(W, attempt' - 1)
      BY <1>1, <1>2, <1>9, <2>1, <3>4, <3>6
    <3>8. status' # "complete" /\ delay' = D[attempt']
      BY <2>1, <3>2, <3>5
    <3> QED BY <1>10, <3>7, <3>8
  <2>3. CASE ~(attempt < MaxAttempts)
    BY <1>4, <1>9, <1>10, <2>1, <2>3
    DEF BadAnswer, SimulatedTimeout, SimulatedRateLimit, RateLimited, Again
  <2> QED BY <2>2, <2>3
<1>5. CASE Unclassified \/ DeadLetter
  BY <1>5, <1>9, <1>10 DEF Unclassified, DeadLetter
<1>6. CASE Answered
  <2>1. Slept(W, attempt' - 1) = 0
    BY <1>2, <1>6 DEF Answered, NewCall
  <2>2. waited' <= Slept(full, done') + Slept(W, attempt' - 1)
    BY <1>1, <1>2, <1>6, <1>8, <1>9, <2>1 DEF Answered
  <2> QED BY <1>6, <1>10, <2>2 DEF Answered, NewCall, Waits
<1>7. CASE TaskRetry
  <2>1. Slept(W, attempt' - 1) = 0
    BY <1>2, <1>7 DEF TaskRetry, NewCall
  <2>2. waited' <= Slept(full, done') + Slept(W, attempt' - 1)
    BY <1>1, <1>2, <1>7, <2>1 DEF TaskRetry
  <2> QED BY <1>7, <1>10, <2>2 DEF TaskRetry, NewCall, Waits
<1> QED BY <1>3, <1>4, <1>5, <1>6, <1>7 DEF Next

\* A task run never reaches its soft time limit by waiting between attempts,
\* if the waits of all calls together are shorter than the limit: the sleeps
\* of _execute_llm_call start again at each call and at each run.
THEOREM WaitsBounded ==
    ASSUME NEW D, NEW W, Waits(D, W),
           Slept(CallWaits(W), AgentCount) < SoftTimeLimit
    PROVE  Spec => []WaitsWithinLimit
<1>1. Init => WaitInv(D, W)
  <2>1. W \in Nat /\ MaxAttempts - 1 \in Nat /\ CallWaits(W) \in Nat
    BY CallsAssumption, SleptFacts DEF Waits, CallWaits
  <2>2. Slept(CallWaits(W), 0) = 0 /\ Slept(W, 0) = 0
    BY <2>1, SleptFacts
  <2> QED BY <2>2 DEF Init, WaitInv, Waits
<1>2. IInv /\ WaitInv(D, W) /\ [Next]_vars => WaitInv(D, W)'
  BY WaitStep
<1>3. IInv /\ WaitInv(D, W) => WaitsWithinLimit
  <2> SUFFICES ASSUME IInv, WaitInv(D, W)
               PROVE  waited < SoftTimeLimit
    BY DEF WaitsWithinLimit
  <2> DEFINE full == CallWaits(W)
  <2>1. /\ W \in Nat /\ MaxAttempts - 1 \in Nat /\ AgentCount \in Nat
        /\ SoftTimeLimit \in Nat
        /\ attempt - 1 \in Nat /\ attempt - 1 <= MaxAttempts - 1
        /\ done \in Nat /\ done <= AgentCount /\ waited \in Nat
    BY CallsAssumption DEF IInv, TypeOK, Waits
  <2>2. full \in Nat
    BY <2>1, SleptFacts DEF CallWaits
  <2>3. Slept(W, attempt - 1) \in Nat /\ Slept(W, attempt - 1) <= full
    BY <2>1, SleptFacts DEF CallWaits
  <2> HIDE DEF full
  <2>4. waited <= Slept(full, done) + Slept(W, attempt - 1)
    BY DEF WaitInv, full
  <2>5. /\ Slept(full, done) \in Nat /\ Slept(full, AgentCount) \in Nat
        /\ Slept(full, done) <= Slept(full, AgentCount)
    BY <2>1, <2>2, SleptFacts
  <2>6. waited <= Slept(full, AgentCount)
    <3>1. CASE status = "complete"
      <4>1. Slept(W, attempt - 1) = 0
        BY <2>1, <3>1, SleptFacts DEF WaitInv
      <4> QED BY <2>1, <2>4, <2>5, <4>1
    <3>2. CASE status # "complete"
      <4>1. done + 1 <= AgentCount
        BY <2>1, <3>2 DEF IInv, BudgetInv, TypeOK
      <4>2. Slept(full, done + 1) = Slept(full, done) + full
        BY <2>1, <2>2, SleptFacts
      <4>3. Slept(full, done + 1) <= Slept(full, AgentCount)
        <5>1. done + 1 \in Nat
          BY <2>1
        <5> QED BY <2>1, <2>2, <4>1, <5>1, SleptFacts
      <4> QED BY <2>1, <2>2, <2>3, <2>4, <2>5, <4>2, <4>3
    <3> QED BY <3>1, <3>2
  <2> QED BY <2>1, <2>5, <2>6 DEF full
<1> QED
  BY <1>1, <1>2, <1>3, CallsInvariant, PTL DEF Spec

\* The policy of the code: three attempts from one second, doubled, at most
\* five seconds before an attempt, and three agents, within 120 seconds.
COROLLARY PolicyWaits ==
    ASSUME AgentCount = 3, MaxAttempts = 3, InitialDelay = 1, Multiplier = 2,
           RetryAfter = 5, MinimumWait = 2, SoftTimeLimit = 120
    PROVE  Spec => []WaitsWithinLimit
<1> DEFINE D == [k \in 1..MaxAttempts |-> IF k = 1 THEN 1 ELSE IF k = 2 THEN 2 ELSE 4]
<1>1. Waits(D, 5)
  BY DEF Waits
<1>2. Slept(CallWaits(5), AgentCount) < SoftTimeLimit
  BY DEF Slept, CallWaits
<1> HIDE DEF D
<1> QED BY <1>1, <1>2, WaitsBounded

=============================================================================
