-------------------------- MODULE ExecutionProofs --------------------------
(***************************************************************************)
(* The count of attempts: the hash, the copy a worker holds and the        *)
(* requests really sent agree through every execution, so a job is sent at *)
(* most max_attempts times, never early, and neither after it failed for   *)
(* good nor after it succeeded.                                            *)
(***************************************************************************)
EXTENDS TickHookProofs

\* A record a request may be sent from: its count of attempts is that of the
\* requests sent, and one is left.
Runnable(j, rec) ==
    rec.status = "pending" /\ rec.attempt = tries[j] /\ tries[j] < Request[j].maxAttempts

\* On the way from the schedule to the GetJob of a worker.
Waiting(j) ==
    InBatch(j) \/ Queued(j) \/ \E w \in Workers : workerPc[w] = "load" /\ workerJob[w] = j

\* What holds of a job, whoever has it.
JobInv(j) ==
    /\ (Scheduled(j) \/ Waiting(j)) /\ Stored(j) => Runnable(j, jobs[j])
    /\ Waiting(j) /\ Stored(j) => jobs[j].due <= now
    /\ tries[j] <= Request[j].maxAttempts
    /\ j \notin issued => tries[j] = 0
    /\ j \in succeeded => j \in issued /\ ~Scheduled(j) /\ ~Waiting(j)

\* What holds of the copy a worker has, of the hash behind it and of the requests
\* sent.
WorkerInv(w) ==
    LET j == workerJob[w]
        rec == workerRec[w]
    IN  /\ HasRecord(w) /\ Stored(j) => jobs[j].status = "pending"
        /\ workerPc[w] = "domain" => Runnable(j, rec) /\ rec.due <= now
        /\ workerPc[w] = "inflight" =>
                /\ rec.status = "pending" /\ rec.due <= now
                /\ rec.attempt + 1 = tries[j]
        /\ workerPc[w] = "update" /\ rec.status = "pending" => Runnable(j, rec)
        /\ workerPc[w] = "reschedule" =>
                /\ Runnable(j, rec)
                /\ Stored(j) => Runnable(j, jobs[j])
        /\ Busy(w) /\ j \in succeeded => workerPc[w] = "delete"

\* The inductive invariant of the theorems below.
ExecutionInv ==
    /\ pollNow <= now
    /\ \A j \in Jobs : JobInv(j)
    /\ \A w \in Workers : WorkerInv(w)

LEMMA ExecutionInit == Init => ExecutionInv
<1> SUFFICES ASSUME Init
             PROVE  ExecutionInv
    OBVIOUS
<1>1. pollNow <= now
    BY DEF Init, SchedulerInit
<1>2. \A j \in Jobs : JobInv(j)
    BY RequestAssumption
       DEF Init, StoreInit, ExecutorInit, SchedulerInit, ApiInit, JobInv, Waiting, InBatch,
           Queued, Stored, Scheduled, ValidRequest
<1>3. \A w \in Workers : WorkerInv(w)
    BY DEF Init, ExecutorInit, WorkerInv, HasRecord, Busy
<1> QED BY <1>1, <1>2, <1>3 DEF ExecutionInv

-----------------------------------------------------------------------------

(* What GetDueJobs returns is due. *)
LEMMA GetDueJobsInTime ==
    ASSUME NEW nowMs, NEW s \in GetDueJobs(nowMs)
    PROVE  \A i \in 1 .. Len(s) : Scheduled(s[i]) /\ schedule[s[i]] <= nowMs
<1> DEFINE due == DueAt(nowMs)
           n == IF Cardinality(due) < Batch THEN Cardinality(due) ELSE Batch
<1>1. s \in [1 .. n -> due]
    BY DEF GetDueJobs
<1>2. n \in Nat
    <2>1. IsFiniteSet(due)
        BY RequestAssumption, FS_Subset DEF DueAt
    <2> QED BY <2>1, FS_CardinalityType, StoreAssumption
<1> HIDE DEF n
<1>3. Len(s) = n
    BY <1>1, <1>2
<1> QED BY <1>1, <1>3 DEF DueAt

(* What a step leaves true of the jobs and workers it does not touch. *)

LEMMA JobKept ==
    ASSUME TypeOK, ScheduleMatchesRecord, NEW j \in Jobs, JobInv(j),
           now <= now', now' \in Int, issued \subseteq issued',
           Stored(j)' => Stored(j) /\ jobs'[j] = jobs[j],
           Scheduled(j)' => Scheduled(j),
           Waiting(j)' => Waiting(j) \/ (Scheduled(j) /\ schedule[j] <= now),
           tries'[j] = tries[j],
           j \in succeeded' => j \in succeeded
    PROVE  JobInv(j)'
<1>1. Stored(j) => jobs[j].due \in Int
    BY DEF TypeOK, StoreTypeOK, JobRecord, Stored
<1>2. now \in Int
    BY DEF TypeOK, ProcessTypeOK
<1>3. Waiting(j)' /\ Stored(j)' => jobs'[j].due <= now'
    <2>1. SUFFICES ASSUME Waiting(j)', Stored(j)'
                   PROVE  jobs[j].due <= now
        BY <1>1, <1>2
    <2> QED BY <2>1 DEF JobInv, ScheduleMatchesRecord
<1>4. (Scheduled(j)' \/ Waiting(j)') /\ Stored(j)' => Runnable(j, jobs[j])'
    BY DEF JobInv, Runnable
<1> QED BY <1>3, <1>4 DEF JobInv

LEMMA WorkerKept ==
    ASSUME TypeOK, NEW w \in Workers, WorkerInv(w), now <= now', now' \in Int,
           workerPc'[w] = workerPc[w],
           workerJob'[w] = workerJob[w],
           workerRec'[w] = workerRec[w],
           Busy(w) =>
                /\ jobs'[workerJob[w]] # Absent =>
                        Stored(workerJob[w]) /\ jobs'[workerJob[w]] = jobs[workerJob[w]]
                /\ tries'[workerJob[w]] = tries[workerJob[w]]
                /\ workerJob[w] \in succeeded' => workerJob[w] \in succeeded
    PROVE  WorkerInv(w)'
<1>1. CASE ~Busy(w)
    BY <1>1 DEF Busy, HasRecord, WorkerInv
<1>2. CASE Busy(w)
    <2>1. PICK j : j = workerJob[w]
        OBVIOUS
    <2>2. HasRecord(w) => workerRec[w].due \in Int
        BY DEF TypeOK, ExecutorTypeOK, JobRecord
    <2>3. workerPc[w] \in {"domain", "inflight"} /\ workerRec[w].due <= now
                => workerRec[w].due <= now'
        BY <2>2 DEF HasRecord, TypeOK, ProcessTypeOK
    <2>4. /\ Stored(j)' => Stored(j) /\ jobs'[j] = jobs[j]
          /\ tries'[j] = tries[j]
          /\ j \in succeeded' => j \in succeeded
          /\ j = workerJob'[w]
        BY <1>2, <2>1 DEF Stored
    <2>5. /\ Busy(w)' <=> Busy(w)
          /\ HasRecord(w)' <=> HasRecord(w)
        BY DEF Busy, HasRecord
    <2>6. Runnable(j, workerRec[w]) => Runnable(j, workerRec[w])'
        BY <2>4 DEF Runnable
    <2>7. Stored(j)' /\ Runnable(j, jobs[j]) => Runnable(j, jobs[j])'
        BY <2>4 DEF Runnable
    <2> QED BY <2>1, <2>3, <2>4, <2>5, <2>6, <2>7 DEF WorkerInv, Stored
<1> QED BY <1>1, <1>2

\* A job nobody is about to run again.
LEMMA JobAtRest ==
    ASSUME NEW j \in Jobs, ~Scheduled(j)', ~Waiting(j)', j \in issued',
           (tries[j] <= Request[j].maxAttempts)'
    PROVE  JobInv(j)'
BY DEF JobInv

LEMMA WorkerAtRest ==
    ASSUME NEW w \in Workers, workerPc'[w] \in {"idle", "exited"}
    PROVE  WorkerInv(w)'
BY DEF WorkerInv, HasRecord, Busy

\* A step of the executeJob of worker w: nothing but its job and itself is touched.
OnlyTouches(w) ==
    /\ UNCHANGED <<now, pollNow, batch, queue, issued>>
    /\ \A v \in Workers \ {w} :
            /\ workerPc'[v] = workerPc[v]
            /\ workerJob'[v] = workerJob[v]
            /\ workerRec'[v] = workerRec[v]
    /\ \A j \in Jobs \ {workerJob[w]} :
            /\ jobs'[j] = jobs[j]
            /\ schedule'[j] = schedule[j]
            /\ tries'[j] = tries[j]
            /\ j \in succeeded' => j \in succeeded
    /\ workerPc'[w] # "load"

\* Every step from GetJob on is one.
LEMMA WorkerTouches ==
    ASSUME TypeOK, NEW w \in Workers, UNCHANGED <<now, schedVars, apiVars>>,
           \/ WorkerLoad(w) \/ WorkerAbandon(w) \/ WorkerFire(w) \/ WorkerSucceeds(w)
           \/ WorkerRefused(w) \/ WorkerFails(w) \/ WorkerDelete(w) \/ WorkerUpdate(w)
           \/ WorkerReschedule(w)
    PROVE  Busy(w) /\ OnlyTouches(w)
<1> USE DEF TypeOK, ExecutorTypeOK, schedVars, apiVars, OnlyTouches, Busy
<1>1. CASE WorkerLoad(w) \/ WorkerAbandon(w)
    BY <1>1 DEF WorkerLoad, WorkerAbandon, Release, Goto, storeVars, historyVars
<1>2. CASE WorkerFire(w)
    BY <1>2 DEF WorkerFire, Goto, storeVars
<1>3. CASE WorkerSucceeds(w)
    BY <1>3 DEF WorkerSucceeds, Goto, storeVars
<1>4. CASE WorkerRefused(w) \/ WorkerFails(w)
    BY <1>4 DEF WorkerRefused, WorkerFails, Goto, storeVars, historyVars
<1>5. CASE WorkerDelete(w)
    BY <1>5 DEF WorkerDelete, DeleteJob, Release, storeVars, historyVars, StoreTypeOK
<1>6. CASE WorkerUpdate(w)
    BY <1>6 DEF WorkerUpdate, UpdateJob, Release, Goto, historyVars, StoreTypeOK
<1>7. CASE WorkerReschedule(w)
    BY <1>7 DEF WorkerReschedule, AddToSchedule, Release, historyVars, StoreTypeOK
<1> QED BY <1>1, <1>2, <1>3, <1>4, <1>5, <1>6, <1>7

\* Nobody but its worker can have the job of a busy worker.
LEMMA HeldAlone ==
    ASSUME TypeOK, Ownership, NEW w \in Workers, Busy(w), OnlyTouches(w),
           NEW j \in Jobs, j = workerJob[w]
    PROVE  /\ j \in issued /\ ~Scheduled(j) /\ ~Waiting(j)'
           /\ \A v \in Workers \ {w} : Busy(v) => workerJob[v] # j
<1>1. Held(j)
    BY DEF Held
<1>2. j \in issued /\ ~Scheduled(j) /\ ~InBatch(j) /\ ~Queued(j)
    BY <1>1 DEF Ownership, Claimed
<1>3. \A v \in Workers \ {w} : Busy(v) => workerJob[v] # j
    BY DEF Ownership
<1>4. ~InBatch(j)' /\ ~Queued(j)'
    BY <1>2 DEF OnlyTouches, InBatch, Queued
<1>5. \A v \in Workers : ~(workerPc'[v] = "load" /\ workerJob'[v] = j)
    BY <1>3 DEF OnlyTouches, Busy
<1> QED BY <1>2, <1>3, <1>4, <1>5 DEF Waiting

LEMMA WorkerStepKept ==
    ASSUME TypeOK, Ownership, ScheduleMatchesRecord, ExecutionInv,
           NEW w \in Workers, Busy(w), OnlyTouches(w),
           NEW own \in Jobs, own = workerJob[w], JobInv(own)', WorkerInv(w)'
    PROVE  ExecutionInv'
<1>1. now \in Int /\ now' = now /\ pollNow' <= now' /\ now <= now'
    BY DEF TypeOK, ProcessTypeOK, OnlyTouches, ExecutionInv
<1>2. ASSUME NEW j \in Jobs \ {own}
      PROVE  JobInv(j)'
    <2>1. Waiting(j)' => Waiting(j)
        BY DEF OnlyTouches, Waiting, InBatch, Queued
    <2>2. /\ Stored(j)' => Stored(j) /\ jobs'[j] = jobs[j]
          /\ Scheduled(j)' => Scheduled(j)
          /\ tries'[j] = tries[j]
          /\ j \in succeeded' => j \in succeeded
          /\ issued' = issued
        BY DEF OnlyTouches, Stored, Scheduled
    <2>3. JobInv(j)
        BY DEF ExecutionInv
    <2> QED BY <1>1, <2>1, <2>2, <2>3, JobKept
<1>3. ASSUME NEW v \in Workers \ {w}
      PROVE  WorkerInv(v)'
    <2>1. Busy(v) => workerJob[v] \in Jobs \ {own}
        BY HeldAlone DEF TypeOK, ExecutorTypeOK
    <2>2. \A j \in Jobs \ {own} :
            /\ Stored(j)' => Stored(j) /\ jobs'[j] = jobs[j]
            /\ tries'[j] = tries[j]
            /\ j \in succeeded' => j \in succeeded
        BY DEF OnlyTouches, Stored
    <2>3. Busy(v) =>
            /\ jobs'[workerJob[v]] # Absent =>
                    Stored(workerJob[v]) /\ jobs'[workerJob[v]] = jobs[workerJob[v]]
            /\ tries'[workerJob[v]] = tries[workerJob[v]]
            /\ workerJob[v] \in succeeded' => workerJob[v] \in succeeded
        BY <2>1, <2>2 DEF Stored
    <2> QED BY <1>1, <2>3, WorkerKept DEF OnlyTouches, ExecutionInv
<1> QED BY <1>1, <1>2, <1>3 DEF ExecutionInv

-----------------------------------------------------------------------------

(* The executor, step by step. *)

LEMMA LoadExecution ==
    ASSUME TypeOK, Ownership, RecordInv, ExecutionInv, NEW w \in Workers, WorkerLoad(w),
           UNCHANGED <<now, schedVars, apiVars>>
    PROVE  ExecutionInv'
<1>1. PICK j \in Jobs : j = workerJob[w]
    BY DEF WorkerLoad, TypeOK, ExecutorTypeOK, Busy
<1>2. Busy(w) /\ workerPc[w] = "load" /\ Waiting(j) /\ JobInv(j)
    BY <1>1 DEF WorkerLoad, Busy, Waiting, ExecutionInv
<1>3. /\ UNCHANGED <<jobs, schedule, tries, succeeded>>
      /\ \/ Release(w)
         \/ /\ Stored(j) /\ Goto(w, "domain") /\ workerJob' = workerJob
            /\ workerRec' = [workerRec EXCEPT ![w] = jobs[j]]
    BY <1>1 DEF WorkerLoad, storeVars, historyVars
<1>4. OnlyTouches(w)
    BY WorkerTouches
<1>5. JobInv(j)'
    BY <1>1, <1>2, <1>3, <1>4, HeldAlone, JobAtRest DEF JobInv, Scheduled, apiVars
<1>6. WorkerInv(w)'
    <2>1. CASE Release(w)
        BY <2>1, WorkerAtRest DEF Release, TypeOK, ExecutorTypeOK
    <2>2. CASE ~Release(w)
        <3>1. /\ workerPc'[w] = "domain" /\ workerJob'[w] = j /\ workerRec'[w] = jobs[j]
              /\ Stored(j)
            BY <1>1, <1>3, <2>2 DEF Goto, TypeOK, ExecutorTypeOK
        <3>2. Runnable(j, jobs[j]) /\ jobs[j].due <= now /\ j \notin succeeded
            BY <1>2, <3>1 DEF JobInv
        <3> QED BY <1>3, <3>1, <3>2 DEF WorkerInv, Runnable
    <2> QED BY <2>1, <2>2
<1> QED BY <1>1, <1>2, <1>4, <1>5, <1>6, WorkerStepKept DEF RecordInv

LEMMA FireExecution ==
    ASSUME TypeOK, Ownership, RecordInv, ExecutionInv, NEW w \in Workers, WorkerFire(w),
           UNCHANGED <<now, schedVars, apiVars>>
    PROVE  ExecutionInv'
<1>1. PICK j \in Jobs : j = workerJob[w]
    BY DEF WorkerFire, TypeOK, ExecutorTypeOK, Busy
<1>2. /\ Busy(w) /\ HasRecord(w) /\ workerPc[w] = "domain"
      /\ JobInv(j) /\ WorkerInv(w)
    BY <1>1 DEF WorkerFire, Busy, HasRecord, ExecutionInv
<1>3. /\ UNCHANGED <<jobs, schedule, workerJob, workerRec, succeeded>>
      /\ tries' = [tries EXCEPT ![j] = @ + 1]
      /\ tries[j] \in Nat /\ workerPc'[w] = "inflight"
    BY <1>1 DEF WorkerFire, Goto, TypeOK, ExecutorTypeOK, storeVars
<1>4. OnlyTouches(w)
    BY WorkerTouches
<1>5. /\ Runnable(j, workerRec[w]) /\ workerRec[w].due <= now
      /\ Stored(j) => jobs[j].status = "pending"
      /\ j \notin succeeded
    BY <1>1, <1>2 DEF WorkerInv
<1>6. tries'[j] = tries[j] + 1 /\ tries'[j] <= Request[j].maxAttempts
    BY <1>3, <1>5, RequestAssumption DEF Runnable, ValidRequest, TypeOK, ExecutorTypeOK
<1>7. JobInv(j)'
    BY <1>1, <1>2, <1>3, <1>4, <1>6, HeldAlone, JobAtRest DEF Scheduled, apiVars
<1>8. WorkerInv(w)'
    BY <1>1, <1>3, <1>5, <1>6 DEF WorkerInv, Runnable, Stored
<1> QED BY <1>1, <1>2, <1>4, <1>7, <1>8, WorkerStepKept DEF RecordInv

LEMMA SucceedsExecution ==
    ASSUME TypeOK, Ownership, RecordInv, ExecutionInv, NEW w \in Workers, WorkerSucceeds(w),
           UNCHANGED <<now, schedVars, apiVars>>
    PROVE  ExecutionInv'
<1>1. PICK j \in Jobs : j = workerJob[w]
    BY DEF WorkerSucceeds, TypeOK, ExecutorTypeOK, Busy
<1>2. /\ Busy(w) /\ HasRecord(w) /\ workerPc[w] = "inflight" /\ WorkerInv(w)
      /\ workerRec[w] \in JobRecord
    BY <1>1 DEF WorkerSucceeds, Busy, HasRecord, ExecutionInv, TypeOK, ExecutorTypeOK
<1>3. /\ UNCHANGED <<jobs, schedule, workerJob>>
      /\ tries' = [tries EXCEPT ![j] = 0]
      /\ \/ /\ Goto(w, "delete") /\ workerRec' = workerRec
            /\ succeeded' = succeeded \cup {j}
         \/ /\ Goto(w, "update") /\ succeeded' = succeeded
            /\ workerRec' = [workerRec EXCEPT ![w] = AfterSuccess(j, @)]
    BY <1>1 DEF WorkerSucceeds, storeVars
<1>4. OnlyTouches(w)
    BY WorkerTouches
<1>5. tries'[j] = 0 /\ Request[j].maxAttempts \in Nat \ {0}
    BY <1>3, RequestAssumption DEF ValidRequest, TypeOK, ExecutorTypeOK
<1>6. JobInv(j)'
    BY <1>1, <1>2, <1>3, <1>4, <1>5, HeldAlone, JobAtRest DEF Scheduled, apiVars
<1>7. /\ Stored(j) => jobs[j].status = "pending"
      /\ j \notin succeeded
    BY <1>1, <1>2 DEF WorkerInv
<1>8. WorkerInv(w)'
    <2>1. CASE Goto(w, "delete")
        BY <1>1, <1>3, <1>7, <2>1 DEF WorkerInv, Stored, Goto, TypeOK, ExecutorTypeOK
    <2>2. CASE ~Goto(w, "delete")
        <3>1. /\ workerPc'[w] = "update" /\ succeeded' = succeeded
              /\ workerRec'[w] = AfterSuccess(j, workerRec[w])
            BY <1>3, <2>2 DEF Goto, TypeOK, ExecutorTypeOK
        <3>2. /\ AfterSuccess(j, workerRec[w]).attempt = 0
              /\ AfterSuccess(j, workerRec[w]).status = "pending"
            BY <1>2 DEF AfterSuccess, JobRecord
        <3> QED BY <1>1, <1>3, <1>5, <1>7, <3>1, <3>2 DEF WorkerInv, Runnable, Stored
    <2> QED BY <2>1, <2>2
<1> QED BY <1>1, <1>2, <1>4, <1>6, <1>8, WorkerStepKept DEF RecordInv

LEMMA RefusedExecution ==
    ASSUME TypeOK, Ownership, RecordInv, ExecutionInv, NEW w \in Workers,
           WorkerRefused(w) \/ WorkerFails(w),
           UNCHANGED <<now, schedVars, apiVars>>
    PROVE  ExecutionInv'
<1>1. PICK j \in Jobs : j = workerJob[w]
    BY DEF WorkerRefused, WorkerFails, TypeOK, ExecutorTypeOK, Busy
<1>2. /\ Busy(w) /\ HasRecord(w) /\ workerPc[w] = "inflight"
      /\ WorkerInv(w) /\ JobInv(j) /\ workerRec[w] \in JobRecord
    BY <1>1 DEF WorkerRefused, WorkerFails, Busy, HasRecord, ExecutionInv, TypeOK,
                ExecutorTypeOK
<1>3. /\ UNCHANGED <<jobs, schedule, workerJob, tries, succeeded>>
      /\ workerPc'[w] = "update"
      /\ \A v \in Workers \ {w} : workerPc'[v] = workerPc[v] /\ workerRec'[v] = workerRec[v]
    BY DEF WorkerRefused, WorkerFails, Goto, TypeOK, ExecutorTypeOK, storeVars, historyVars
<1>4. OnlyTouches(w)
    BY WorkerTouches
<1>5. JobInv(j)'
    BY <1>1, <1>2, <1>3, <1>4, HeldAlone, JobAtRest DEF JobInv, Scheduled, apiVars
<1>6. /\ workerRec[w].attempt + 1 = tries[j]
      /\ workerRec[w].status = "pending"
      /\ Stored(j) => jobs[j].status = "pending"
      /\ j \notin succeeded
    BY <1>1, <1>2 DEF WorkerInv
<1>7. workerRec'[w].status = "pending" => Runnable(j, workerRec'[w])
    <2>1. CASE WorkerRefused(w)
        <3>1. workerRec'[w] = AfterClientError(j, workerRec[w])
            BY <1>1, <2>1 DEF WorkerRefused, TypeOK, ExecutorTypeOK
        <3> QED BY <1>2, <3>1 DEF AfterClientError, JobRecord
    <2>2. CASE WorkerFails(w)
        <3>1. PICK rec \in AfterFailure(j, workerRec[w], now) : workerRec'[w] = rec
            BY <1>1, <2>2 DEF WorkerFails, TypeOK, ExecutorTypeOK
        <3> DEFINE n == workerRec[w].attempt + 1
        <3>2. n = tries[j] /\ n \in Nat /\ Request[j].maxAttempts \in Nat
            BY <1>6, RequestAssumption DEF ValidRequest, TypeOK, ExecutorTypeOK
        <3> DEFINE failed == [workerRec[w] EXCEPT !.attempt = n, !.lastError = "error"]
        <3>3. /\ failed.attempt = n /\ failed.status = "pending"
              /\ failed \in [due : Int, attempt : Nat, status : JobStatus,
                             lastError : {"none", "error"}]
            <4> HIDE DEF n
            <4> QED BY <1>2, <1>6, <3>2 DEF JobRecord
        <3>4. failed = [workerRec[w] EXCEPT !.attempt = @ + 1, !.lastError = "error"]
            OBVIOUS
        <3>5. \/ n >= Request[j].maxAttempts /\ rec = [failed EXCEPT !.status = "failed"]
              \/ /\ ~(n >= Request[j].maxAttempts)
                 /\ \E d : rec = [failed EXCEPT !.due = d]
            BY <3>1, <3>3, <3>4 DEF AfterFailure
        <3> HIDE DEF failed, n
        <3> QED BY <3>1, <3>2, <3>3, <3>5 DEF Runnable
    <2> QED BY <2>1, <2>2
<1>8. WorkerInv(w)'
    BY <1>1, <1>3, <1>6, <1>7 DEF WorkerInv, Runnable, Stored
<1> QED BY <1>1, <1>2, <1>4, <1>5, <1>8, WorkerStepKept DEF RecordInv

LEMMA UpdateExecution ==
    ASSUME TypeOK, Ownership, RecordInv, ExecutionInv, NEW w \in Workers, WorkerUpdate(w),
           UNCHANGED <<now, schedVars, apiVars>>
    PROVE  ExecutionInv'
<1>1. PICK j \in Jobs : j = workerJob[w]
    BY DEF WorkerUpdate, TypeOK, ExecutorTypeOK, Busy
<1>2. PICK outcome \in WriteOutcomes :
        /\ UpdateJob(j, workerRec[w], outcome)
        /\ \/ /\ Continues(outcome, workerRec[w]) /\ Goto(w, "reschedule")
              /\ UNCHANGED <<workerJob, workerRec>>
           \/ Release(w)
    BY <1>1 DEF WorkerUpdate
<1>3. /\ Busy(w) /\ workerPc[w] = "update" /\ WorkerInv(w) /\ JobInv(j)
      /\ workerRec[w] \in JobRecord /\ jobs \in [Jobs -> JobRecord \cup {Absent}]
    BY DEF WorkerUpdate, Busy, HasRecord, ExecutionInv, TypeOK, ExecutorTypeOK, StoreTypeOK
<1>4. /\ UNCHANGED <<schedule, tries, succeeded>>
      /\ \A i \in Jobs \ {j} : jobs'[i] = jobs[i]
      /\ Continues(outcome, workerRec[w]) => jobs'[j] = HSet(jobs[j], workerRec[w])
    BY <1>2, <1>3 DEF WorkerUpdate, UpdateJob, Continues, Written, historyVars
<1>5. OnlyTouches(w)
    BY WorkerTouches
<1>6. JobInv(j)'
    BY <1>1, <1>3, <1>4, <1>5, HeldAlone, JobAtRest DEF JobInv, Scheduled, apiVars
<1>7. WorkerInv(w)'
    <2>1. CASE Release(w)
        BY <2>1, WorkerAtRest DEF Release, TypeOK, ExecutorTypeOK
    <2>2. CASE ~Release(w)
        <3>1. /\ workerPc'[w] = "reschedule" /\ workerJob'[w] = j
              /\ workerRec'[w] = workerRec[w] /\ Continues(outcome, workerRec[w])
            BY <1>1, <1>2, <2>2 DEF Goto, TypeOK, ExecutorTypeOK
        <3>2. Runnable(j, workerRec[w]) /\ j \notin succeeded
            BY <1>1, <1>3, <3>1 DEF WorkerInv, Continues
        <3>3. /\ jobs'[j].status = workerRec[w].status
              /\ jobs'[j].attempt = workerRec[w].attempt
            BY <1>3, <1>4, <3>1 DEF HSet, JobRecord
        <3> QED BY <1>4, <3>1, <3>2, <3>3 DEF WorkerInv, Runnable
    <2> QED BY <2>1, <2>2
<1> QED BY <1>1, <1>3, <1>5, <1>6, <1>7, WorkerStepKept DEF RecordInv

LEMMA DeleteExecution ==
    ASSUME TypeOK, Ownership, RecordInv, ExecutionInv, NEW w \in Workers, WorkerDelete(w),
           UNCHANGED <<now, schedVars, apiVars>>
    PROVE  ExecutionInv'
<1>1. PICK j \in Jobs : j = workerJob[w]
    BY DEF WorkerDelete, TypeOK, ExecutorTypeOK, Busy
<1>2. Busy(w) /\ workerPc[w] = "delete" /\ JobInv(j) /\ Release(w) /\ StoreTypeOK
    BY DEF WorkerDelete, Busy, ExecutionInv, TypeOK
<1>3. /\ UNCHANGED <<tries, succeeded>>
      /\ \A i \in Jobs \ {j} : jobs'[i] = jobs[i] /\ schedule'[i] = schedule[i]
      /\ Scheduled(j)' => Scheduled(j)
    BY <1>1, <1>2 DEF WorkerDelete, DeleteJob, Scheduled, historyVars, storeVars, StoreTypeOK
<1>4. OnlyTouches(w)
    BY WorkerTouches
<1>5. JobInv(j)'
    BY <1>1, <1>2, <1>3, <1>4, HeldAlone, JobAtRest DEF JobInv, apiVars
<1>6. WorkerInv(w)'
    BY <1>2, WorkerAtRest DEF Release, TypeOK, ExecutorTypeOK
<1> QED BY <1>1, <1>2, <1>4, <1>5, <1>6, WorkerStepKept DEF RecordInv

LEMMA RescheduleExecution ==
    ASSUME TypeOK, Ownership, RecordInv, ExecutionInv, NEW w \in Workers,
           WorkerReschedule(w), UNCHANGED <<now, schedVars, apiVars>>
    PROVE  ExecutionInv'
<1>1. PICK j \in Jobs : j = workerJob[w]
    BY DEF WorkerReschedule, TypeOK, ExecutorTypeOK, Busy
<1>2. /\ Busy(w) /\ workerPc[w] = "reschedule" /\ WorkerInv(w) /\ JobInv(j)
      /\ Release(w) /\ StoreTypeOK
    BY DEF WorkerReschedule, Busy, ExecutionInv, TypeOK
<1>3. /\ UNCHANGED <<jobs, tries, succeeded>>
      /\ \A i \in Jobs \ {j} : schedule'[i] = schedule[i]
    BY <1>1, <1>2 DEF WorkerReschedule, AddToSchedule, historyVars, StoreTypeOK
<1>4. OnlyTouches(w)
    BY WorkerTouches
<1>5. j \in issued /\ ~Waiting(j)'
    BY <1>1, <1>2, <1>4, HeldAlone
<1>6. (Stored(j) => Runnable(j, jobs[j])) /\ j \notin succeeded
    BY <1>1, <1>2 DEF WorkerInv
<1>7. JobInv(j)'
    BY <1>2, <1>3, <1>5, <1>6 DEF JobInv, Runnable, Stored, apiVars
<1>8. WorkerInv(w)'
    BY <1>2, WorkerAtRest DEF Release, TypeOK, ExecutorTypeOK
<1> QED BY <1>1, <1>2, <1>4, <1>7, <1>8, WorkerStepKept DEF RecordInv

-----------------------------------------------------------------------------

(* Steps that write no record and send no request: they may delete jobs, pass a   *)
(* waiting job on, find a due one, let go of one, or let time pass.               *)
LEMMA ExecutionKept ==
    ASSUME TypeOK, RecordInv, ExecutionInv,
           now <= now', now' \in Int, pollNow' <= now', issued \subseteq issued',
           UNCHANGED historyVars,
           \A j \in Jobs :
                /\ Stored(j)' => Stored(j) /\ jobs'[j] = jobs[j]
                /\ Scheduled(j)' => Scheduled(j)
                /\ Waiting(j)' => Waiting(j) \/ (Scheduled(j) /\ schedule[j] <= now),
           \A w \in Workers :
                \/ /\ workerPc'[w] = workerPc[w]
                   /\ workerJob'[w] = workerJob[w]
                   /\ workerRec'[w] = workerRec[w]
                \/ workerPc'[w] \in {"idle", "exited"}
                \/ /\ workerPc'[w] = "load"
                   /\ \E j \in Jobs : workerJob'[w] = j /\ Waiting(j)
    PROVE  ExecutionInv'
<1>1. ASSUME NEW j \in Jobs
      PROVE  JobInv(j)'
    BY JobKept DEF ExecutionInv, RecordInv, historyVars
<1>2. ASSUME NEW w \in Workers
      PROVE  WorkerInv(w)'
    <2>1. CASE workerPc'[w] \in {"idle", "exited"}
        BY <2>1, WorkerAtRest
    <2>2. CASE /\ workerPc'[w] = workerPc[w]
               /\ workerJob'[w] = workerJob[w]
               /\ workerRec'[w] = workerRec[w]
        <3>1. WorkerInv(w) /\ (Busy(w) => workerJob[w] \in Jobs)
            BY DEF ExecutionInv, TypeOK, ExecutorTypeOK
        <3>2. \A j \in Jobs : jobs'[j] # Absent => Stored(j) /\ jobs'[j] = jobs[j]
            BY DEF Stored
        <3> QED BY <2>2, <3>1, <3>2, WorkerKept DEF historyVars
    <2>3. CASE workerPc'[w] = "load" /\ \E j \in Jobs : workerJob'[w] = j /\ Waiting(j)
        <3>1. PICK j \in Jobs : workerJob'[w] = j /\ Waiting(j)
            BY <2>3
        <3>2. j \notin succeeded
            BY <3>1 DEF ExecutionInv, JobInv
        <3> QED BY <2>3, <3>1, <3>2 DEF WorkerInv, HasRecord, historyVars
    <2> QED BY <2>1, <2>2, <2>3
<1> QED BY <1>1, <1>2 DEF ExecutionInv

LEMMA WorkerExecution ==
    ASSUME TypeOK, Ownership, RecordInv, ExecutionInv, NEW w \in Workers, WorkerStep(w),
           UNCHANGED <<now, schedVars, apiVars>>
    PROVE  ExecutionInv'
<1>1. /\ now \in Int /\ now' = now /\ now <= now' /\ pollNow' <= now'
      /\ issued' = issued
    BY DEF TypeOK, ProcessTypeOK, ExecutionInv, schedVars, apiVars
<1>2. CASE WorkerTake(w)
    <2>1. PICK j \in Jobs : j = Head(queue)
        BY <1>2 DEF WorkerTake, TypeOK, ExecutorTypeOK
    <2>2. queue \in Seq(Jobs) /\ queue # <<>> /\ queue' = Tail(queue)
        BY <1>2 DEF WorkerTake, TypeOK, ExecutorTypeOK
    <2>3. Queued(j) /\ \A i \in Jobs : Queued(i)' => Queued(i)
        BY <2>1, <2>2, TailDistinct DEF Queued, Ownership
    <2>4. /\ workerPc'[w] = "load" /\ workerJob'[w] = j
          /\ \A v \in Workers \ {w} :
                workerPc'[v] = workerPc[v] /\ workerJob'[v] = workerJob[v]
          /\ workerRec' = workerRec
        BY <1>2, <2>1 DEF WorkerTake, Goto, TypeOK, ExecutorTypeOK
    <2>5. \A i \in Jobs : Waiting(i)' => Waiting(i)
        BY <2>3, <2>4 DEF Waiting, InBatch, schedVars
    <2>6. UNCHANGED <<jobs, schedule, historyVars>>
        BY <1>2 DEF WorkerTake, storeVars
    <2>7. Waiting(j)
        BY <2>3 DEF Waiting
    <2> QED BY <1>1, <2>4, <2>5, <2>6, <2>7, ExecutionKept DEF Stored, Scheduled
<1>3. CASE WorkerExit(w) \/ WorkerAbandon(w)
    <2>1. \A v \in Workers :
            \/ /\ workerPc'[v] = workerPc[v]
               /\ workerJob'[v] = workerJob[v]
               /\ workerRec'[v] = workerRec[v]
            \/ workerPc'[v] \in {"idle", "exited"}
        BY <1>3 DEF WorkerExit, WorkerAbandon, Goto, Release, TypeOK, ExecutorTypeOK
    <2>2. UNCHANGED <<jobs, schedule, queue, historyVars>>
        BY <1>3 DEF WorkerExit, WorkerAbandon, storeVars
    <2>3. \A i \in Jobs : Waiting(i)' => Waiting(i)
        BY <2>1, <2>2 DEF Waiting, InBatch, Queued, schedVars
    <2> QED BY <1>1, <2>1, <2>2, <2>3, ExecutionKept DEF Stored, Scheduled
<1> QED BY <1>2, <1>3, LoadExecution, FireExecution, SucceedsExecution, RefusedExecution,
           DeleteExecution, UpdateExecution, RescheduleExecution
        DEF WorkerStep

-----------------------------------------------------------------------------

LEMMA SchedulingExecution ==
    ASSUME TypeOK, Ownership, RecordInv, ExecutionInv, Scheduling
    PROVE  ExecutionInv'
<1>1. /\ now \in Int /\ now' = now /\ now <= now' /\ issued' = issued
      /\ 0 <= now /\ pollNow <= now /\ pollNow \in Int
      /\ UNCHANGED <<jobs, historyVars, workerPc, workerJob, workerRec>>
    BY DEF TypeOK, ProcessTypeOK, SchedulerTypeOK, ExecutionInv, Scheduling, SchedulerStep,
           PollStart, PollFetch, PollRemove, PollDispatch, SchedulerExit, apiVars, storeVars,
           execVars, RemoveFromSchedule
<1>2. pollNow' <= now'
    BY <1>1 DEF Scheduling, SchedulerStep, PollStart, PollFetch, PollRemove, PollDispatch,
                SchedulerExit
<1>3. \A j \in Jobs : Scheduled(j)' => Scheduled(j)
    BY DEF Scheduling, SchedulerStep, PollStart, PollFetch, PollRemove, PollDispatch,
           SchedulerExit, RemoveFromSchedule, Scheduled, storeVars, TypeOK, StoreTypeOK
<1>4. ASSUME NEW j \in Jobs, Waiting(j)'
      PROVE  Waiting(j) \/ (Scheduled(j) /\ schedule[j] <= now)
    <2>1. CASE PollFetch
        <3>1. CASE batch' = <<>>
            BY <1>1, <1>4, <2>1, <3>1 DEF PollFetch, Waiting, InBatch, Queued, execVars
        <3>2. CASE batch' \in GetDueJobs(pollNow)
            <4>1. \A i \in 1 .. Len(batch') :
                        Scheduled(batch'[i]) /\ schedule[batch'[i]] <= pollNow
                BY <3>2, GetDueJobsInTime
            <4>2. CASE InBatch(j)'
                <5>1. Scheduled(j) /\ schedule[j] <= pollNow
                    BY <4>1, <4>2 DEF InBatch
                <5>2. schedule[j] \in Int
                    BY <5>1 DEF Scheduled, TypeOK, StoreTypeOK
                <5> QED BY <1>1, <5>1, <5>2
            <4> QED BY <1>4, <2>1, <4>2 DEF PollFetch, Waiting, Queued, execVars
        <3> QED BY <2>1, <3>1, <3>2 DEF PollFetch
    <2>2. CASE PollRemove \/ PollDispatch
        <3>1. batch \in Seq(Jobs) /\ batch # <<>>
            BY <2>2 DEF PollRemove, PollDispatch, TypeOK, SchedulerTypeOK
        <3>2. InBatch(j)' => InBatch(j)
            BY <2>2, <3>1, TailDistinct
               DEF PollRemove, PollDispatch, NextInBatch, InBatch, Ownership
        <3>3. Queued(j)' => Queued(j) \/ (PollDispatch /\ j = Head(batch))
            <4>1. CASE PollRemove
                BY <4>1 DEF PollRemove, Queued, execVars
            <4>2. CASE PollDispatch
                <5>1. queue \in Seq(Jobs) /\ queue' = Append(queue, Head(batch))
                    BY <4>2 DEF PollDispatch, Dispatch, TypeOK, ExecutorTypeOK
                <5> QED BY <3>1, <4>2, <5>1 DEF Queued
            <4> QED BY <2>2, <4>1, <4>2
        <3>4. InBatch(Head(batch))
            BY <3>1 DEF InBatch
        <3> QED BY <1>1, <1>4, <3>2, <3>3, <3>4 DEF Waiting
    <2>3. CASE PollStart \/ SchedulerExit
        BY <1>1, <1>4, <2>3 DEF PollStart, SchedulerExit, Waiting, InBatch, Queued, execVars
    <2> QED BY <2>1, <2>2, <2>3 DEF Scheduling, SchedulerStep
<1> QED BY <1>1, <1>2, <1>3, <1>4, ExecutionKept DEF Stored

-----------------------------------------------------------------------------

LEMMA CreateExecution ==
    ASSUME TypeOK, Ownership, RecordInv, ExecutionInv, NEW j \in Jobs, HandleCreate(j),
           UNCHANGED <<now, execVars, schedVars>>
    PROVE  ExecutionInv'
<1>1. /\ now \in Int /\ now' = now /\ now <= now' /\ pollNow' <= now'
      /\ UNCHANGED <<workerPc, workerJob, workerRec, tries, succeeded>>
    BY DEF TypeOK, ProcessTypeOK, ExecutionInv, schedVars, execVars, historyVars
<1>2. PICK outcome \in RequestOutcomes : CreateJob(j, NewJob(j), outcome)
    BY DEF HandleCreate
<1>3. /\ j \notin issued /\ ~Stored(j) /\ ~Scheduled(j) /\ ~InBatch(j) /\ ~Queued(j) /\ ~Held(j)
      /\ issued' = issued \cup {j} /\ tries[j] = 0 /\ j \notin succeeded
    BY DEF HandleCreate, Ownership, ExecutionInv, JobInv
<1>4. /\ \A i \in Jobs \ {j} : jobs'[i] = jobs[i] /\ schedule'[i] = schedule[i]
      /\ jobs'[j] = Absent \/ jobs'[j] = NewJob(j)
    BY <1>2, <1>3 DEF CreateJob, TypeOK, StoreTypeOK, storeVars, HSet, Stored
<1>5. \A i \in Jobs : Waiting(i)' <=> Waiting(i)
    BY <1>1 DEF Waiting, InBatch, Queued, schedVars, execVars
<1>6. ~Waiting(j)
    BY <1>3 DEF Waiting, Held, Busy
<1>7. ASSUME NEW i \in Jobs
      PROVE  JobInv(i)'
    <2>1. CASE i = j
        <3>1. Request[j].maxAttempts \in Nat \ {0}
            BY RequestAssumption DEF ValidRequest
        <3>2. Stored(j)' => Runnable(j, jobs[j])'
            BY <1>1, <1>3, <1>4, <3>1 DEF Stored, NewJob, Runnable
        <3> QED BY <1>1, <1>3, <1>5, <1>6, <2>1, <3>1, <3>2 DEF JobInv
    <2>2. CASE i # j
        BY <1>1, <1>3, <1>4, <1>5, <2>2, JobKept
           DEF ExecutionInv, RecordInv, Stored, Scheduled
    <2> QED BY <2>1, <2>2
<1>8. ASSUME NEW w \in Workers
      PROVE  WorkerInv(w)'
    <2>1. Busy(w) => workerJob[w] \in Jobs \ {j}
        BY <1>3 DEF Held, TypeOK, ExecutorTypeOK
    <2>2. \A i \in Jobs \ {j} : jobs'[i] # Absent => Stored(i) /\ jobs'[i] = jobs[i]
        BY <1>4 DEF Stored
    <2> QED BY <1>1, <2>1, <2>2, WorkerKept DEF ExecutionInv
<1> QED BY <1>1, <1>7, <1>8 DEF ExecutionInv

LEMMA ExecutionNext ==
    ASSUME TypeOK, Ownership, RecordInv, ExecutionInv, [Next]_vars
    PROVE  ExecutionInv'
<1>1. now \in Int /\ pollNow \in Int /\ pollNow <= now /\ 0 <= now
    BY DEF TypeOK, ProcessTypeOK, SchedulerTypeOK, ExecutionInv
<1>2. CASE Tick \/ Signal \/ StopExecutor \/ Restart \/ UNCHANGED vars
    <2>1. /\ UNCHANGED <<storeVars, execVars, schedVars, apiVars>>
          /\ now' = now \/ now' = now + 1
        BY <1>2 DEF Tick, Signal, StopExecutor, Restart, vars
    <2>2. \A j \in Jobs : Waiting(j)' => Waiting(j)
        BY <2>1 DEF Waiting, InBatch, Queued, execVars, schedVars
    <2>3. now <= now' /\ now' \in Int /\ pollNow' <= now'
        BY <1>1, <2>1 DEF schedVars
    <2> QED BY <2>1, <2>2, <2>3, ExecutionKept
            DEF storeVars, execVars, apiVars, Stored, Scheduled
<1>3. CASE Scheduling
    BY <1>3, SchedulingExecution
<1>4. ASSUME NEW w \in Workers, Working(w)
      PROVE  ExecutionInv'
    BY <1>4, WorkerExecution DEF Working
<1>5. ASSUME NEW j \in Jobs, Creating(j)
      PROVE  ExecutionInv'
    BY <1>5, CreateExecution DEF Creating
<1>6. ASSUME NEW j \in Jobs, Deleting(j)
      PROVE  ExecutionInv'
    <2>1. \A i \in Jobs : /\ Stored(i)' => Stored(i) /\ jobs'[i] = jobs[i]
                          /\ Scheduled(i)' => Scheduled(i)
        BY <1>6 DEF Deleting, HandleDeleteLookup, HandleDelete, DeleteJob, Stored, Scheduled,
                    storeVars, TypeOK, StoreTypeOK
    <2>2. UNCHANGED <<now, execVars, schedVars, issued>>
        BY <1>6 DEF Deleting, HandleDeleteLookup, HandleDelete
    <2>3. \A i \in Jobs : Waiting(i)' => Waiting(i)
        BY <2>2 DEF Waiting, InBatch, Queued, execVars, schedVars
    <2>4. now <= now' /\ now' \in Int /\ pollNow' <= now'
        BY <1>1, <2>2 DEF schedVars
    <2> QED BY <2>1, <2>2, <2>3, <2>4, ExecutionKept DEF execVars
<1>7. CASE Exit \/ Crash
    <2>1. /\ UNCHANGED <<storeVars, now, historyVars, issued>>
          /\ pollNow' = 0 /\ batch' = <<>> /\ queue' = <<>>
          /\ workerPc' = [w \in Workers |-> "idle"]
        BY <1>7 DEF Exit, Crash, ProcessGone, ExecutorFresh, SchedulerFresh
    <2>2. \A j \in Jobs : ~Waiting(j)'
        BY <2>1 DEF Waiting, InBatch, Queued
    <2>3. now <= now' /\ now' \in Int /\ pollNow' <= now'
        BY <1>1, <2>1
    <2> QED BY <2>1, <2>2, <2>3, ExecutionKept DEF storeVars, Stored, Scheduled
<1> QED BY <1>2, <1>3, <1>4, <1>5, <1>6, <1>7 DEF Next

-----------------------------------------------------------------------------

\* The inductive invariant holds, whatever the store, the signals and the crashes do.
THEOREM ExecutionHolds ==
    Spec => [](TypeOK /\ Ownership /\ RecordInv /\ ExecutionInv)
<1>1. Init => TypeOK /\ Ownership /\ RecordInv /\ ExecutionInv
    BY TypeInit, OwnershipInit, RecordInit, ExecutionInit
<1>2. TypeOK /\ Ownership /\ RecordInv /\ ExecutionInv /\ [Next]_vars
            => (TypeOK /\ Ownership /\ RecordInv /\ ExecutionInv)'
    BY TypeNext, OwnershipNext, RecordNext, ExecutionNext
<1> QED BY <1>1, <1>2, PTL DEF Spec

\* No webhook leaves before the due time of its job, for any set of jobs, workers
\* and due times.
THEOREM WebhooksAreOnTime == Spec => []NeverEarly
<1>1. ExecutionInv => NeverEarly
    BY DEF ExecutionInv, WorkerInv, NeverEarly
<1> QED BY <1>1, ExecutionHolds, PTL

\* The attempt count of a scheduled job is the number of requests sent since its
\* last success.
THEOREM NoAttemptIsLost == Spec => []AttemptsCounted
<1>1. ExecutionInv => AttemptsCounted
    BY DEF ExecutionInv, JobInv, AttemptsCounted, Runnable
<1> QED BY <1>1, ExecutionHolds, PTL

\* A job is sent at most max_attempts times between two successes, for every value
\* of max_attempts and every failure of the store and the process.
THEOREM NoAttemptTooMany == Spec => []AttemptsBounded
<1>1. ExecutionInv => AttemptsBounded
    BY DEF ExecutionInv, JobInv, AttemptsBounded
<1> QED BY <1>1, ExecutionHolds, PTL

\* A one-shot job that succeeded is not sent again, even if it could not be deleted.
THEOREM SuccessIsFinal == Spec => []NoFireAfterSuccess
<1>1. ExecutionInv => NoFireAfterSuccess
    BY DEF ExecutionInv, WorkerInv, NoFireAfterSuccess, Busy
<1> QED BY <1>1, ExecutionHolds, PTL

\* A job whose record says "failed" is neither scheduled nor on its way to a worker.
THEOREM FailureIsFinal == Spec => []FailedIsRetired
<1>1. TypeOK /\ ExecutionInv => FailedIsRetired
    <2> SUFFICES ASSUME TypeOK, ExecutionInv, NEW j \in Jobs,
                        Stored(j), jobs[j].status = "failed"
                 PROVE  ~Scheduled(j) /\ ~Claimed(j)
        BY DEF FailedIsRetired
    <2>1. ~Scheduled(j) /\ ~Waiting(j)
        BY DEF ExecutionInv, JobInv, Runnable
    <2>2. ~InHand(j) /\ ~Queued(j)
        BY <2>1 DEF Waiting, InHand, InBatch, TypeOK, SchedulerTypeOK
    <2>3. ~Held(j)
        <3>1. ASSUME NEW w \in Workers, Busy(w), workerJob[w] = j
              PROVE  FALSE
            <4>1. workerPc[w] = "load" \/ HasRecord(w)
                BY <3>1 DEF Busy, HasRecord
            <4>2. HasRecord(w) => jobs[j].status = "pending"
                BY <3>1 DEF ExecutionInv, WorkerInv
            <4> QED BY <2>1, <3>1, <4>1, <4>2 DEF Waiting
        <3> QED BY <3>1 DEF Held
    <2> QED BY <2>1, <2>2, <2>3 DEF Claimed
<1> QED BY <1>1, ExecutionHolds, PTL
=============================================================================
