----------------------------- MODULE RedisStore -----------------------------
(***************************************************************************)
(* internal/store/redis.go: the hash of every job and the schedule, a      *)
(* sorted set whose score is the job's due time.  Each operation is one    *)
(* Redis command or one MULTI/EXEC transaction, hence one atomic step.     *)
(*                                                                         *)
(* A write ends in one of three ways: "ok"; "rejected", an error and       *)
(* nothing written (cancelled context, refused connection); "unacked", the *)
(* write took place but its reply was lost, which the caller also sees as  *)
(* an error.  A read either succeeds or is rejected.                       *)
(***************************************************************************)
EXTENDS JobModel

CONSTANTS
    StoreFaults,    \* the failures Redis and the network may show in this model
    Batch           \* --batch: most jobs fetched by one poll

ASSUME StoreAssumption ==
    /\ StoreFaults \subseteq {"rejected", "unacked"}
    /\ Batch \in Nat \ {0}

VARIABLES
    jobs,           \* jobs[j]: the hash {ns}:job:{j}, or Absent
    schedule        \* schedule[j]: the score of j in {ns}:schedules, or Absent

storeVars == <<jobs, schedule>>

WriteOutcome == {"ok", "rejected", "unacked"}

StoreTypeOK ==
    /\ jobs \in [Jobs -> JobRecord \cup {Absent}]
    /\ schedule \in [Jobs -> Int \cup {Absent}]

StoreInit ==
    /\ jobs = [j \in Jobs |-> Absent]
    /\ schedule = [j \in Jobs |-> Absent]

Stored(j) == jobs[j] # Absent

Scheduled(j) == schedule[j] # Absent

-----------------------------------------------------------------------------

\* HSET of the fields serializeJob produces.  It leaves an empty last_error (and
\* a zero last_http_code) out of the map, so HSET keeps whatever the hash had.
HSet(old, rec) ==
    IF rec.lastError = "none" /\ old # Absent
    THEN [rec EXCEPT !.lastError = old.lastError]
    ELSE rec

Written(outcome) == outcome \in {"ok", "unacked"}

CreateJob(j, rec, outcome) ==
    IF Written(outcome)
    THEN /\ jobs' = [jobs EXCEPT ![j] = HSet(@, rec)]
         /\ schedule' = [schedule EXCEPT ![j] = rec.due]
    ELSE UNCHANGED storeVars

\* UpdateJob: HSET creates the hash when it is not there.
UpdateJob(j, rec, outcome) ==
    /\ jobs' = IF Written(outcome) THEN [jobs EXCEPT ![j] = HSet(@, rec)] ELSE jobs
    /\ UNCHANGED schedule

DeleteJob(j, outcome) ==
    IF Written(outcome)
    THEN /\ jobs' = [jobs EXCEPT ![j] = Absent]
         /\ schedule' = [schedule EXCEPT ![j] = Absent]
    ELSE UNCHANGED storeVars

\* RemoveFromSchedule: ZREM, which is no error when j is not a member.
RemoveFromSchedule(j, outcome) ==
    /\ schedule' = IF Written(outcome) THEN [schedule EXCEPT ![j] = Absent] ELSE schedule
    /\ UNCHANGED jobs

\* A plausible slip: ZADD XX, which only changes the score of a member.
AddToScheduleIfMember(j, dueAtMs, outcome) ==
    /\ schedule' = IF Written(outcome) /\ Scheduled(j)
                   THEN [schedule EXCEPT ![j] = dueAtMs] ELSE schedule
    /\ UNCHANGED jobs

\* ZADD, which adds j or changes its score.
AddToSchedule(j, dueAtMs, outcome) ==
    /\ schedule' = IF Written(outcome) THEN [schedule EXCEPT ![j] = dueAtMs] ELSE schedule
    /\ UNCHANGED jobs

-----------------------------------------------------------------------------

\* Plausible slips: a poll that ignores the clock, and a range without its end.
DueAtAnyTime(nowMs) == {j \in Jobs : Scheduled(j)}
DueBefore(nowMs) == {j \in Jobs : Scheduled(j) /\ schedule[j] < nowMs}

\* The members of the schedule with a score from -inf to nowMs.
DueAt(nowMs) == {j \in Jobs : Scheduled(j) /\ schedule[j] <= nowMs}

\* GetDueJobs: ZRANGEBYSCORE -inf nowMs LIMIT 0 Batch.  Lowest scores first; the
\* order among equal scores is that of the random IDs, hence arbitrary.
GetDueJobs(nowMs) ==
    LET due == DueAt(nowMs)
        n == IF Cardinality(due) < Batch THEN Cardinality(due) ELSE Batch
    IN  {s \in [1 .. n -> due] :
            /\ \A a, b \in 1 .. n : a < b => s[a] # s[b] /\ schedule[s[a]] <= schedule[s[b]]
            /\ \A j \in due, i \in 1 .. n :
                    schedule[j] < schedule[s[i]] => \E k \in 1 .. n : s[k] = j}
=============================================================================
