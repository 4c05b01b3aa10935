------------------------------ MODULE LLMCalls ------------------------------
(***************************************************************************)
(* The two levels of retries around the language model: _execute_llm_call  *)
(* retries one agent's request up to MaxAttempts times with exponential    *)
(* backoff, and the task process_lead runs the remaining agents again up   *)
(* to MaxRetries times, skipping those whose answer is in the checkpoint.  *)
(* The module follows one lead in one worker, without crashes (those are   *)
(* in LeadPipeline); the model's answers and errors are the environment.   *)
(***************************************************************************)
EXTENDS Integers

CONSTANTS
    AgentCount,    \* intent, research, categorization: called in this order
    MaxAttempts,   \* LLM_RETRY_POLICY["max_attempts"]
    MaxRetries,    \* LEAD_PIPELINE_RETRY_POLICY["max_retries"]
    InitialDelay,  \* LLM_RETRY_POLICY["initial_delay_seconds"]
    Multiplier,    \* LLM_RETRY_POLICY["backoff_multiplier"]
    RetryAfter,    \* what a simulated 429 asks for
    MinimumWait,   \* the least wait after a 429 of the API
    SoftTimeLimit  \* task_soft_time_limit

ASSUME CallsAssumption ==
    /\ AgentCount \in Nat \ {0}
    /\ MaxAttempts \in Nat \ {0}
    /\ MaxRetries \in Nat
    /\ InitialDelay \in Nat /\ Multiplier \in Nat
    /\ RetryAfter \in Nat /\ MinimumWait \in Nat /\ SoftTimeLimit \in Nat

VARIABLES
    status,   \* of the task: running, failed (in its except block), complete, dead
    run,      \* self.request.retries
    done,     \* agents whose output the checkpoint holds
    attempt,  \* attempt of the current call
    delay,    \* its next backoff delay, in seconds
    error,    \* last_error, or the exception that replaced it
    asked,    \* requests sent to the API for this lead, each of them paid
    waited    \* seconds slept in this task run

vars == <<status, run, done, attempt, delay, error, asked, waited>>

Errors == {"none", "malformed", "timeout", "rateLimit", "NameError"}

TypeOK ==
    /\ status \in {"running", "failed", "complete", "dead"}
    /\ run \in 0..MaxRetries
    /\ done \in 0..AgentCount
    /\ attempt \in 1..MaxAttempts
    /\ delay \in Nat
    /\ error \in Errors
    /\ asked \in Nat
    /\ waited \in Nat

Init ==
    /\ status = "running"
    /\ run = 0
    /\ done = 0
    /\ attempt = 1
    /\ delay = InitialDelay
    /\ error = "none"
    /\ asked = 0
    /\ waited = 0

Larger(a, b) == IF a >= b THEN a ELSE b

\* A call begins: attempt 1, the initial delay, no error yet.
NewCall_KeepsDelay == attempt' = 1 /\ UNCHANGED delay /\ error' = "none"
NewCall == attempt' = 1 /\ delay' = InitialDelay /\ error' = "none"

\* A failure the loop recognises: wait and go on, or raise last_error.
Again_OneLess(kind, wait) ==
    /\ error' = kind
    /\ IF attempt < MaxAttempts - 1
       THEN /\ attempt' = attempt + 1
            /\ waited' = waited + wait
            /\ delay' = delay * Multiplier
            /\ UNCHANGED status
       ELSE /\ status' = "failed"
            /\ UNCHANGED <<attempt, waited, delay>>
Again_OneMore(kind, wait) ==
    /\ error' = kind
    /\ IF attempt <= MaxAttempts
       THEN /\ attempt' = attempt + 1
            /\ waited' = waited + wait
            /\ delay' = delay * Multiplier
            /\ UNCHANGED status
       ELSE /\ status' = "failed"
            /\ UNCHANGED <<attempt, waited, delay>>
Again(kind, wait) ==
    /\ error' = kind
    /\ IF attempt < MaxAttempts
       THEN /\ attempt' = attempt + 1
            /\ waited' = waited + wait
            /\ delay' = delay * Multiplier
            /\ UNCHANGED status
       ELSE /\ status' = "failed"
            /\ UNCHANGED <<attempt, waited, delay>>

\* A valid answer: the agent is checkpointed, the next one is called.
Answered ==
    /\ status = "running"
    /\ asked' = asked + 1
    /\ done' = done + 1
    /\ status' = IF done + 1 = AgentCount THEN "complete" ELSE "running"
    /\ NewCall
    /\ UNCHANGED <<run, waited>>

\* JSONDecodeError, or an answer that the schema refuses.
BadAnswer ==
    /\ status = "running"
    /\ asked' = asked + 1
    /\ Again("malformed", delay)
    /\ UNCHANGED <<run, done>>

\* _maybe_simulate_failure raises before anything is sent.
SimulatedTimeout ==
    /\ status = "running"
    /\ Again("timeout", delay)
    /\ UNCHANGED <<run, done, asked>>

SimulatedRateLimit ==
    /\ status = "running"
    /\ Again("rateLimit", Larger(delay, RetryAfter))
    /\ UNCHANGED <<run, done, asked>>

\* A real 429.
RateLimited ==
    /\ status = "running"
    /\ asked' = asked + 1
    /\ Again("rateLimit", Larger(delay, MinimumWait))
    /\ UNCHANGED <<run, done>>

\* Any other exception: a network timeout, a 500, an empty answer, a simulated
\* malformed response.  The catch-all names LLMError, which the module does not
\* import, so that the handler itself raises NameError and the loop is left.
Unclassified ==
    /\ status = "running"
    /\ asked' \in {asked, asked + 1}
    /\ error' = "NameError"
    /\ status' = "failed"
    /\ UNCHANGED <<run, done, attempt, delay, waited>>

\* The except block of the task commits the checkpoint and retries.
TaskRetry_LosesCheckpoint ==
    /\ status = "failed" /\ run < MaxRetries
    /\ status' = "running"
    /\ run' = run + 1
    /\ done' = 0
    /\ waited' = 0
    /\ NewCall
    /\ UNCHANGED asked
TaskRetry ==
    /\ status = "failed" /\ run < MaxRetries
    /\ status' = "running"
    /\ run' = run + 1
    /\ waited' = 0
    /\ NewCall
    /\ UNCHANGED <<done, asked>>

DeadLetter_OffByOne ==
    /\ status = "failed" /\ run > MaxRetries
    /\ status' = "dead"
    /\ UNCHANGED <<run, done, attempt, delay, error, asked, waited>>
DeadLetter ==
    /\ status = "failed" /\ run >= MaxRetries
    /\ status' = "dead"
    /\ UNCHANGED <<run, done, attempt, delay, error, asked, waited>>

Next ==
    \/ Answered \/ BadAnswer \/ SimulatedTimeout \/ SimulatedRateLimit
    \/ RateLimited \/ Unclassified \/ TaskRetry \/ DeadLetter

Spec == Init /\ [][Next]_vars

\* The worker runs on: every request is answered or times out at the client.
FairSpec == Spec /\ WF_vars(Next)

-----------------------------------------------------------------------------
\* The two retry levels and the checkpoint together never spend more requests
\* on a lead than one full call for each agent and one for each task retry.
RequestBudget == asked <= MaxAttempts * (AgentCount + MaxRetries)

\* A failure that the loop classifies is raised only after the last attempt.
ClassifiedRetried ==
    status = "failed" /\ error # "NameError" => attempt = MaxAttempts

\* The waits of one task run leave the soft time limit of the task alone.
WaitsWithinLimit == waited < SoftTimeLimit

\* However the failures of the model are spread over the two levels, the
\* retries come to an end: the lead is complete or dead-lettered.
CallsEnd == <>(status \in {"complete", "dead"})

\* Every failed call has used all its attempts (README.md:89, and the
\* catch-all branch "for non-429 API errors (e.g. 500, 503)").
AllFailuresRetried == status = "failed" => attempt = MaxAttempts
=============================================================================
