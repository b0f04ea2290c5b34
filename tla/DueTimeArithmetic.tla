-------------------------- MODULE DueTimeArithmetic --------------------------
(***************************************************************************)
(* The due times of one recurring job at full width: an int64 in its       *)
(* record and a float64 as its score in the schedule, computed from an     *)
(* interval and a backoff.  TickHook.tla computes all of them with         *)
(* unbounded integers; here is when that is right.                         *)
(*                                                                         *)
(* The clock stays below the first integer that is no float (2^53 ms is    *)
(* the year 287396), and start_at is an RFC 3339 date, of at most four     *)
(* digits for the year, and exact as well.                                 *)
(***************************************************************************)
EXTENDS Backoff

CONSTANTS
    Intervals,      \* the values of interval_ms a client may send
    Bases,          \* the values of backoff_base_ms
    MaxAttempts     \* max_attempts

ASSUME DueTimeAssumption ==
    /\ Intervals \subseteq 1 .. MaxInt
    /\ Bases \subseteq 1 .. MaxInt
    /\ MaxAttempts \in Nat \ {0}
    /\ PowersDouble(MaxExponent + MaxAttempts)

VARIABLES
    now,
    due,            \* due_at_ms of the record
    score,          \* of the schedule, or NotScheduled when the job has failed
    attempt,
    interval,
    base            \* backoff_base_ms

vars == <<now, due, score, attempt, interval, base>>

MaxNow == MaxExact - 1

NotScheduled == MaxInt + 2

\* A plausible slip: the score is kept with half the digits, as in a float32.
ScheduleRounded(dueAtMs) ==
    /\ due' = dueAtMs
    /\ score' = IF dueAtMs < 0 THEN - RoundHalfThePrecision(- dueAtMs)
                               ELSE RoundHalfThePrecision(dueAtMs)

\* CreateJob and AddToSchedule: the score of a due time.
Schedule(dueAtMs) == due' = dueAtMs /\ score' = ToFloat(dueAtMs)

Init ==
    /\ now = 0
    /\ interval \in Intervals
    /\ base \in Bases
    /\ due \in - MaxExact .. MaxExact
    /\ score = ToFloat(due)
    /\ attempt = 0

\* ZRANGEBYSCORE -inf now: scores are compared as floats, and now is one.
Found == score <= now

\* A plausible slip: the sum is made in an int of half the width.
NextDueNarrow(dueAtMs, intervalMs) ==
    LET half == 2 ^ (IntBits \div 2)
    IN  ((dueAtMs + intervalMs + half \div 2) % half) - half \div 2

\* job.DueAtMs + job.IntervalMs.
NextDue(dueAtMs, intervalMs) == Wrap(dueAtMs + intervalMs)

Advance ==
    /\ now < MaxNow
    /\ now' = now + 1
    /\ UNCHANGED <<due, score, attempt, interval, base>>

\* A run that succeeds.
Succeed ==
    /\ Found
    /\ Schedule(NextDue(due, interval))
    /\ attempt' = 0
    /\ UNCHANGED <<now, interval, base>>

\* A run that fails: it is retried, or was the last attempt.
Fail ==
    /\ Found
    /\ attempt' = attempt + 1
    /\ IF attempt' >= MaxAttempts
       THEN score' = NotScheduled /\ UNCHANGED due
       ELSE \E delay \in CalculateBackoff(attempt', base) : Schedule(Wrap(now + delay))
    /\ UNCHANGED <<now, interval, base>>

\* The modelled time is over and the job not due any more.
Stop ==
    /\ now = MaxNow
    /\ ~Found
    /\ UNCHANGED vars

Next == Advance \/ Succeed \/ Fail \/ Stop

Spec == Init /\ [][Next]_vars

-----------------------------------------------------------------------------

Ideal == INSTANCE JobModel WITH Jobs <- {}, Request <- <<>>, Absent <- NaN

\* Safety.  The rounding of the score (redis.go:65, 145) neither hides a due job
\* from the poll nor shows it one that is not due, whatever int64 the due time is.
FoundWhenDue == score # NotScheduled => (Found <=> due <= now)

\* Safety.  An interval of at most 2^63 - 2^53 ms is kept to the millisecond
\* (executor.go:234): the sum with the due time of any run that has happened fits.
IntervalIsKept == [][Succeed => due' = due + interval]_vars

\* Safety.  Rounding, infinity and the conversions of util.go:41-51 never show: however
\* often a job has failed, with whatever base passed validation, its retry is due
\* exactly min(base * 2^(attempt-1), cap) plus jitter in whole numbers from now.
BackoffIsExact ==
    [][Fail /\ attempt' < MaxAttempts =>
            due' - now \in Ideal!CalculateBackoff(attempt', base)]_vars
=============================================================================
