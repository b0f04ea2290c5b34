------------------------------ MODULE JobModel ------------------------------
(***************************************************************************)
(* The job record of internal/model/job.go and the pure computations the   *)
(* program makes on it: building it from a create request, the exponential *)
(* backoff of internal/util/util.go, and what each outcome of a webhook    *)
(* does to it in internal/executor/executor.go.                            *)
(*                                                                         *)
(* What never changes after creation (type, interval, retry limits, URL)   *)
(* is read from the request the job was built from.  The mutable part is   *)
(* the record below.  lastError stands for last_error and last_http_code;  *)
(* updated_at_ms is never read by the program and is left out.             *)
(***************************************************************************)
EXTENDS Integers, FiniteSets, Sequences

CONSTANTS
    Jobs,           \* the job IDs (UUIDs) that may be handed out
    Request,        \* Request[j]: the validated create request that gets ID j
    MaxBackoffMs,   \* cap of the exponential part of a retry delay
    JitterMaxMs,    \* largest random addition to a retry delay
    Absent          \* "no such key" or "no such member" in Redis

JobType == {"one_shot", "recurring"}

JobStatus == {"pending", "failed"}

JobRecord ==
    [due : Int, attempt : Nat, status : JobStatus, lastError : {"none", "error"}]

\* What CreateOneShotRequest.Validate and CreateRecurringRequest.Validate
\* guarantee of a request by the time a job is built from it, the retry settings
\* being those of DefaultRetryConfig where the request had none.  intervalMs is 0 in
\* a one-shot job; domain is the result of ExtractDomain on the job's URL.
ValidRequest(r) ==
    /\ r.type \in JobType
    /\ r.dueAtMs \in Int
    /\ r.intervalMs \in Nat
    /\ r.type = "recurring" => r.intervalMs > 0
    /\ r.maxAttempts \in Nat \ {0}
    /\ r.backoffBaseMs \in Nat \ {0}

ASSUME RequestAssumption ==
    /\ IsFiniteSet(Jobs)
    /\ \A j \in Jobs : ValidRequest(Request[j])

ASSUME BackoffAssumption ==
    /\ MaxBackoffMs \in Nat
    /\ JitterMaxMs \in Nat

ASSUME AbsentAssumption == Absent \notin Jobs \cup JobRecord \cup Int

-----------------------------------------------------------------------------

\* NewOneShotJob and NewRecurringJob.
NewJob(j) ==
    [due |-> Request[j].dueAtMs, attempt |-> 0,
     status |-> "pending", lastError |-> "none"]

\* The delays CalculateBackoff may return: base * 2^(attempt-1), capped, plus a
\* random jitter.  attempt is at least 1: the caller has just incremented it, so the
\* clamp of util.go:36-38 never acts.
CalculateBackoff(attempt, backoffBaseMs) ==
    LET exponential == backoffBaseMs * 2 ^ (attempt - 1)
        capped == IF exponential > MaxBackoffMs THEN MaxBackoffMs ELSE exponential
    IN  {d \in 0 .. (MaxBackoffMs + JitterMaxMs) :
            capped <= d /\ d <= capped + JitterMaxMs}

\* A plausible slip in handleExecutionSuccess: the attempts of the run that
\* succeeded are carried over to the next one.
AfterSuccessKeepingAttempt(j, rec) ==
    [rec EXCEPT !.due = @ + Request[j].intervalMs,
                !.lastError = "none", !.status = "pending"]

\* handleExecutionSuccess on a recurring job: the next run is one interval after
\* the due time of the run that succeeded, and the failure fields are reset.
AfterSuccess(j, rec) ==
    [rec EXCEPT !.due = @ + Request[j].intervalMs, !.attempt = 0,
                !.lastError = "none", !.status = "pending"]

\* A plausible slip in handleExecutionFailure: > instead of >= in the test for
\* the final failure.
AfterFailureOneTooMany(j, rec, nowMs) ==
    LET failed == [rec EXCEPT !.attempt = @ + 1, !.lastError = "error"]
    IN  IF failed.attempt > Request[j].maxAttempts
        THEN {[failed EXCEPT !.status = "failed"]}
        ELSE {[failed EXCEPT !.due = nowMs + d] :
                d \in CalculateBackoff(failed.attempt, Request[j].backoffBaseMs)}

\* Another: the retry is counted from the due time and not from the failure.
AfterFailureFromDueTime(j, rec, nowMs) ==
    LET failed == [rec EXCEPT !.attempt = @ + 1, !.lastError = "error"]
    IN  IF failed.attempt >= Request[j].maxAttempts
        THEN {[failed EXCEPT !.status = "failed"]}
        ELSE {[failed EXCEPT !.due = @ + d] :
                d \in CalculateBackoff(failed.attempt, Request[j].backoffBaseMs)}

\* handleExecutionFailure at time nowMs: the records it may write, one per jitter.
AfterFailure(j, rec, nowMs) ==
    LET failed == [rec EXCEPT !.attempt = @ + 1, !.lastError = "error"]
    IN  IF failed.attempt >= Request[j].maxAttempts
        THEN {[failed EXCEPT !.status = "failed"]}
        ELSE {[failed EXCEPT !.due = nowMs + d] :
                d \in CalculateBackoff(failed.attempt, Request[j].backoffBaseMs)}

\* handleNonRetryableFailure: a 4xx answer other than 429 ends the job at once.
AfterClientError(j, rec) ==
    [rec EXCEPT !.attempt = Request[j].maxAttempts, !.lastError = "error",
                !.status = "failed"]
=============================================================================
