--------------------------- MODULE TickHookProofs ---------------------------
(***************************************************************************)
(* What is proved of TickHook's state step by step, for every set of jobs, *)
(* workers and requests: type correctness, then, under any failures, that  *)
(* every job has one owner and its score is the due time of its record,    *)
(* and at last, when nothing fails, that no job drops out of all hands.    *)
(***************************************************************************)
EXTENDS TickHook, FiniteSetTheorems, SequenceTheorems, TLAPS

(***************************************************************************)
(* Type correctness.                                                       *)
(***************************************************************************)

(* The operators on job records yield job records. *)

LEMMA NewJobType ==
    ASSUME NEW j \in Jobs
    PROVE  NewJob(j) \in JobRecord
BY RequestAssumption DEF NewJob, JobRecord, JobStatus, ValidRequest

LEMMA BackoffType ==
    ASSUME NEW attempt, NEW base
    PROVE  CalculateBackoff(attempt, base) \subseteq Nat
<1>1. 0 .. (MaxBackoffMs + JitterMaxMs) \subseteq Nat
    BY BackoffAssumption
<1> QED BY <1>1 DEF CalculateBackoff

LEMMA AfterSuccessType ==
    ASSUME NEW j \in Jobs, NEW rec \in JobRecord
    PROVE  AfterSuccess(j, rec) \in JobRecord
<1> DEFINE next == rec.due + Request[j].intervalMs
<1>1. next \in Int
    BY RequestAssumption DEF JobRecord, ValidRequest
<1> DEFINE moved == [rec EXCEPT !.due = next, !.attempt = 0]
<1>2. AfterSuccess(j, rec) = [moved EXCEPT !.lastError = "none", !.status = "pending"]
    BY DEF AfterSuccess
<1> HIDE DEF next
<1>3. moved \in JobRecord
    BY <1>1 DEF JobRecord
<1> HIDE DEF moved
<1> QED BY <1>2, <1>3 DEF JobRecord, JobStatus

LEMMA AfterFailureType ==
    ASSUME NEW j \in Jobs, NEW rec \in JobRecord, NEW nowMs \in Nat,
           NEW new \in AfterFailure(j, rec, nowMs)
    PROVE  new \in JobRecord
<1> DEFINE failed == [rec EXCEPT !.attempt = @ + 1, !.lastError = "error"]
<1>1. failed \in JobRecord
    <2> DEFINE n == rec.attempt + 1
    <2>1. n \in Nat
        BY DEF JobRecord
    <2>2. failed = [rec EXCEPT !.attempt = n, !.lastError = "error"]
        OBVIOUS
    <2> HIDE DEF n, failed
    <2> QED BY <2>1, <2>2 DEF JobRecord
<1>2. CASE failed.attempt >= Request[j].maxAttempts
    <2>1. new = [failed EXCEPT !.status = "failed"]
        BY <1>2 DEF AfterFailure
    <2> QED BY <1>1, <2>1 DEF JobRecord, JobStatus
<1>3. CASE ~(failed.attempt >= Request[j].maxAttempts)
    <2>1. PICK d \in CalculateBackoff(failed.attempt, Request[j].backoffBaseMs) :
                new = [failed EXCEPT !.due = nowMs + d]
        BY <1>3 DEF AfterFailure
    <2>2. nowMs + d \in Int
        BY BackoffType
    <2> HIDE DEF failed
    <2> QED BY <1>1, <2>1, <2>2 DEF JobRecord
<1> QED BY <1>2, <1>3

LEMMA AfterClientErrorType ==
    ASSUME NEW j \in Jobs, NEW rec \in JobRecord
    PROVE  AfterClientError(j, rec) \in JobRecord
BY RequestAssumption DEF AfterClientError, JobRecord, JobStatus, ValidRequest

LEMMA HSetType ==
    ASSUME NEW old \in JobRecord \cup {Absent}, NEW rec \in JobRecord
    PROVE  HSet(old, rec) \in JobRecord
BY DEF HSet, JobRecord

(* What GetDueJobs returns: scheduled jobs, each at most once. *)
LEMMA GetDueJobsResult ==
    ASSUME NEW nowMs, NEW s \in GetDueJobs(nowMs)
    PROVE  /\ s \in Seq(Jobs)
           /\ \A i \in 1 .. Len(s) : Scheduled(s[i])
           /\ \A a, b \in 1 .. Len(s) : s[a] = s[b] => a = b
<1> DEFINE due == DueAt(nowMs)
           n == IF Cardinality(due) < Batch THEN Cardinality(due) ELSE Batch
<1>1. due \subseteq Jobs /\ \A j \in due : Scheduled(j)
    BY DEF DueAt
<1>2. n \in Nat
    <2>1. IsFiniteSet(due)
        BY <1>1, RequestAssumption, FS_Subset
    <2>2. Cardinality(due) \in Nat
        BY <2>1, FS_CardinalityType
    <2> QED BY <2>2, StoreAssumption
<1>3. /\ s \in [1 .. n -> due]
      /\ \A a, b \in 1 .. n : a < b => s[a] # s[b]
    BY DEF GetDueJobs
<1> HIDE DEF due, n
<1>4. s \in Seq(Jobs) /\ Len(s) = n
    BY <1>1, <1>2, <1>3
<1>5. \A a, b \in 1 .. n : s[a] = s[b] => a = b
    <2> SUFFICES ASSUME NEW a \in 1 .. n, NEW b \in 1 .. n, a # b
                 PROVE  s[a] # s[b]
        OBVIOUS
    <2>1. a < b \/ b < a
        BY <1>2
    <2> QED BY <1>3, <2>1
<1> QED BY <1>1, <1>3, <1>4, <1>5

-----------------------------------------------------------------------------

(* The executor. *)

LEMMA ReleaseType ==
    ASSUME ExecutorTypeOK, NEW w \in Workers, Release(w),
           UNCHANGED <<queue, historyVars>>
    PROVE  ExecutorTypeOK'
<1>1. /\ workerPc' \in [Workers -> WorkerPc]
      /\ workerJob' \in [Workers -> Jobs \cup {Absent}]
      /\ workerRec' \in [Workers -> JobRecord \cup {Absent}]
    BY DEF ExecutorTypeOK, Release, WorkerPc
<1>2. ASSUME NEW v \in Workers
      PROVE  /\ Busy(v)' => workerJob'[v] \in Jobs
             /\ HasRecord(v)' => workerRec'[v] \in JobRecord
    BY <1>1 DEF ExecutorTypeOK, Release, Busy, HasRecord
<1> QED BY <1>1, <1>2 DEF ExecutorTypeOK, historyVars

LEMMA WorkerTypeStep ==
    ASSUME TypeOK, NEW w \in Workers, WorkerStep(w)
    PROVE  ExecutorTypeOK'
<1> USE DEF TypeOK, ExecutorTypeOK
<1>1. CASE WorkerTake(w)
    BY <1>1 DEF WorkerTake, Goto, WorkerPc, Busy, HasRecord, historyVars
<1>2. CASE WorkerExit(w)
    BY <1>2 DEF WorkerExit, Goto, WorkerPc, Busy, HasRecord, historyVars
<1>3. CASE WorkerLoad(w)
    BY <1>3, ReleaseType DEF WorkerLoad, Goto, WorkerPc, Busy, HasRecord, historyVars, StoreTypeOK, Stored
<1>4. CASE WorkerAbandon(w)
    BY <1>4, ReleaseType DEF WorkerAbandon
<1>5. CASE WorkerFire(w)
    <2>1. workerPc' \in [Workers -> WorkerPc]
        BY <1>5 DEF WorkerFire, Goto, WorkerPc
    <2>2. tries' \in [Jobs -> Nat]
        <3> DEFINE j == workerJob[w]
                   n == tries[j] + 1
        <3>1. j \in Jobs
            BY <1>5 DEF WorkerFire, Busy
        <3>2. n \in Nat
            BY <3>1
        <3>3. tries' = [tries EXCEPT ![j] = n]
            BY <1>5 DEF WorkerFire
        <3> HIDE DEF j, n
        <3> QED BY <3>2, <3>3
    <2>3. \A v \in Workers : Busy(v)' => Busy(v)
        BY <1>5 DEF WorkerFire, Goto, Busy
    <2>4. \A v \in Workers : HasRecord(v)' => HasRecord(v)
        BY <1>5 DEF WorkerFire, Goto, HasRecord
    <2> QED BY <1>5, <2>1, <2>2, <2>3, <2>4 DEF WorkerFire
<1>6. CASE WorkerSucceeds(w)
    <2>1. workerPc' \in [Workers -> WorkerPc]
        BY <1>6 DEF WorkerSucceeds, Goto, WorkerPc
    <2>2. workerJob[w] \in Jobs /\ workerRec[w] \in JobRecord
        BY <1>6 DEF WorkerSucceeds, Busy, HasRecord
    <2>3. workerRec' \in [Workers -> JobRecord \cup {Absent}] /\ succeeded' \subseteq Jobs
        BY <1>6, <2>2, AfterSuccessType DEF WorkerSucceeds
    <2>4. \A v \in Workers : HasRecord(v)' => workerRec'[v] \in JobRecord
        BY <1>6, <2>2, AfterSuccessType DEF WorkerSucceeds, Goto, HasRecord
    <2>5. \A v \in Workers : Busy(v)' => Busy(v)
        BY <1>6 DEF WorkerSucceeds, Goto, Busy
    <2> QED BY <1>6, <2>1, <2>3, <2>4, <2>5 DEF WorkerSucceeds
<1>7. CASE WorkerRefused(w)
    BY <1>7, AfterClientErrorType DEF WorkerRefused, Goto, WorkerPc, Busy, HasRecord, historyVars
<1>8. CASE WorkerFails(w)
    BY <1>8, AfterFailureType DEF WorkerFails, Goto, WorkerPc, Busy, HasRecord, historyVars, ProcessTypeOK
<1>9. CASE WorkerDelete(w)
    BY <1>9, ReleaseType DEF WorkerDelete
<1>10. CASE WorkerUpdate(w)
    BY <1>10, ReleaseType DEF WorkerUpdate, Goto, WorkerPc, Busy, HasRecord, historyVars
<1>11. CASE WorkerReschedule(w)
    BY <1>11, ReleaseType DEF WorkerReschedule
<1> QED BY <1>1, <1>2, <1>3, <1>4, <1>5, <1>6, <1>7, <1>8, <1>9, <1>10, <1>11 DEF WorkerStep

-----------------------------------------------------------------------------

(* The store.  Each operation keeps its type, whatever the outcome. *)

LEMMA StoreTypeWrite ==
    ASSUME StoreTypeOK, NEW j \in Jobs, NEW rec \in JobRecord, NEW outcome,
           \/ CreateJob(j, rec, outcome)
           \/ UpdateJob(j, rec, outcome)
           \/ DeleteJob(j, outcome)
           \/ RemoveFromSchedule(j, outcome)
           \/ AddToSchedule(j, rec.due, outcome)
           \/ UNCHANGED storeVars
    PROVE  StoreTypeOK'
<1>1. rec.due \in Int /\ HSet(jobs[j], rec) \in JobRecord
    BY HSetType DEF StoreTypeOK, JobRecord
<1>2. CASE CreateJob(j, rec, outcome)
    BY <1>1, <1>2 DEF StoreTypeOK, CreateJob, storeVars
<1>3. CASE UpdateJob(j, rec, outcome)
    BY <1>1, <1>3 DEF StoreTypeOK, UpdateJob
<1>4. CASE DeleteJob(j, outcome)
    BY <1>4 DEF StoreTypeOK, DeleteJob, storeVars
<1>5. CASE RemoveFromSchedule(j, outcome)
    BY <1>5 DEF StoreTypeOK, RemoveFromSchedule
<1>6. CASE AddToSchedule(j, rec.due, outcome)
    BY <1>1, <1>6 DEF StoreTypeOK, AddToSchedule
<1>7. CASE UNCHANGED storeVars
    BY <1>7 DEF StoreTypeOK, storeVars
<1> QED BY <1>2, <1>3, <1>4, <1>5, <1>6, <1>7

LEMMA WorkerStoreTypeStep ==
    ASSUME TypeOK, NEW w \in Workers, WorkerStep(w)
    PROVE  StoreTypeOK'
<1>1. StoreTypeOK
    BY DEF TypeOK
<1>2. CASE UNCHANGED storeVars
    BY <1>1, <1>2 DEF StoreTypeOK, storeVars
<1>3. CASE WorkerDelete(w) \/ WorkerUpdate(w) \/ WorkerReschedule(w)
    <2>1. workerJob[w] \in Jobs /\ workerRec[w] \in JobRecord
        BY <1>3 DEF TypeOK, ExecutorTypeOK, Busy, HasRecord, WorkerDelete, WorkerUpdate,
                    WorkerReschedule
    <2> QED BY <1>1, <1>3, <2>1, StoreTypeWrite
            DEF WorkerDelete, WorkerUpdate, WorkerReschedule
<1> QED BY <1>2, <1>3
        DEF WorkerStep, WorkerTake, WorkerExit, WorkerLoad, WorkerAbandon, WorkerFire,
            WorkerSucceeds, WorkerRefused, WorkerFails

-----------------------------------------------------------------------------

(* The scheduler. *)

LEMMA SchedulerTypeStep ==
    ASSUME TypeOK, SchedulerStep
    PROVE  SchedulerTypeOK' /\ StoreTypeOK' /\ ExecutorTypeOK'
<1> USE DEF TypeOK, SchedulerTypeOK, SchedPc
<1>1. CASE PollStart
    BY <1>1 DEF PollStart, StoreTypeOK, ExecutorTypeOK, storeVars, execVars, historyVars,
                Busy, HasRecord, ProcessTypeOK
<1>2. CASE PollFetch
    <2>1. batch' \in Seq(Jobs)
        BY <1>2, GetDueJobsResult DEF PollFetch
    <2> QED BY <1>2, <2>1, ClockAssumption
            DEF PollFetch, StoreTypeOK, ExecutorTypeOK, storeVars, execVars, historyVars,
                Busy, HasRecord
<1>3. CASE PollRemove
    <2>1. PICK outcome \in WriteOutcomes :
            /\ RemoveFromSchedule(Head(batch), outcome)
            /\ \/ schedPc' = "dispatch" /\ UNCHANGED batch
               \/ NextInBatch
        BY <1>3 DEF PollRemove
    <2>2. batch # <<>> /\ Head(batch) \in Jobs /\ Tail(batch) \in Seq(Jobs)
        BY <1>3 DEF PollRemove
    <2>3. StoreTypeOK'
        BY <2>1, <2>2 DEF RemoveFromSchedule, StoreTypeOK
    <2>4. SchedulerTypeOK'
        BY <1>3, <2>1, <2>2 DEF PollRemove, NextInBatch
    <2> QED BY <1>3, <2>3, <2>4
            DEF PollRemove, ExecutorTypeOK, execVars, historyVars, Busy, HasRecord
<1>4. CASE PollDispatch
    <2>1. batch # <<>> /\ Head(batch) \in Jobs /\ Tail(batch) \in Seq(Jobs)
        BY <1>4 DEF PollDispatch
    <2>2. queue' \in Seq(Jobs)
        BY <1>4, <2>1 DEF PollDispatch, Dispatch, ExecutorTypeOK
    <2> QED BY <1>4, <2>1, <2>2
            DEF PollDispatch, NextInBatch, StoreTypeOK, ExecutorTypeOK, storeVars,
                historyVars, Busy, HasRecord
<1>5. CASE SchedulerExit
    BY <1>5 DEF SchedulerExit, StoreTypeOK, ExecutorTypeOK, storeVars, execVars,
                historyVars, Busy, HasRecord
<1> QED BY <1>1, <1>2, <1>3, <1>4, <1>5 DEF SchedulerStep

(* The handlers. *)

LEMMA HandlerTypeStep ==
    ASSUME TypeOK, NEW j \in Jobs,
           HandleCreate(j) \/ HandleDeleteLookup(j) \/ HandleDelete(j)
    PROVE  ApiTypeOK' /\ StoreTypeOK'
<1> USE DEF TypeOK, ApiTypeOK
<1>1. CASE HandleCreate(j)
    BY <1>1, NewJobType, StoreTypeWrite DEF HandleCreate
<1>2. CASE HandleDeleteLookup(j)
    BY <1>2 DEF HandleDeleteLookup, StoreTypeOK, storeVars
<1>3. CASE HandleDelete(j)
    BY <1>3, NewJobType, StoreTypeWrite DEF HandleDelete
<1> QED BY <1>1, <1>2, <1>3

-----------------------------------------------------------------------------

LEMMA TypeInit == Init => TypeOK
BY ClockAssumption
   DEF Init, TypeOK, StoreTypeOK, StoreInit, ProcessTypeOK, MainPc, ExecutorTypeOK,
       ExecutorInit, WorkerPc, Busy, HasRecord, SchedulerTypeOK, SchedulerInit, SchedPc,
       ApiTypeOK, ApiInit

LEMMA ProcessGoneType ==
    ASSUME TypeOK, ProcessGone
    PROVE  TypeOK'
<1>1. StoreTypeOK' /\ ProcessTypeOK' /\ ApiTypeOK'
    BY DEF ProcessGone, TypeOK, StoreTypeOK, storeVars, ProcessTypeOK, MainPc, ApiTypeOK
<1>2. ExecutorTypeOK'
    BY DEF ProcessGone, TypeOK, ExecutorTypeOK, ExecutorFresh, WorkerPc, Busy, HasRecord,
           historyVars
<1>3. SchedulerTypeOK'
    BY ClockAssumption
       DEF ProcessGone, SchedulerTypeOK, SchedulerFresh, SchedPc
<1> QED BY <1>1, <1>2, <1>3 DEF TypeOK

(* Steps that leave the store and every goroutine where they are. *)
LEMMA QuietTypeStep ==
    ASSUME TypeOK, ProcessTypeOK',
           UNCHANGED <<storeVars, execVars, schedVars, apiVars>>
    PROVE  TypeOK'
BY DEF TypeOK, StoreTypeOK, ExecutorTypeOK, SchedulerTypeOK, ApiTypeOK, storeVars,
       execVars, historyVars, schedVars, apiVars, Busy, HasRecord

LEMMA TypeNext ==
    ASSUME TypeOK, [Next]_vars
    PROVE  TypeOK'
<1>1. ProcessTypeOK /\ StoreTypeOK /\ ExecutorTypeOK /\ SchedulerTypeOK /\ ApiTypeOK
    BY DEF TypeOK
<1>2. CASE Tick
    <2>1. ProcessTypeOK'
        BY <1>1, <1>2, ClockAssumption DEF Tick, ProcessTypeOK
    <2> QED BY <1>2, <2>1, QuietTypeStep DEF Tick
<1>3. CASE Scheduling
    <2>1. ProcessTypeOK' /\ ApiTypeOK'
        BY <1>1, <1>3 DEF Scheduling, ProcessTypeOK, ApiTypeOK, apiVars
    <2> QED BY <1>3, <2>1, SchedulerTypeStep DEF Scheduling, TypeOK
<1>4. ASSUME NEW w \in Workers, Working(w)
      PROVE  TypeOK'
    <2>1. ProcessTypeOK' /\ ApiTypeOK' /\ SchedulerTypeOK'
        BY <1>1, <1>4
           DEF Working, ProcessTypeOK, ApiTypeOK, apiVars, SchedulerTypeOK, schedVars
    <2> QED BY <1>4, <2>1, WorkerTypeStep, WorkerStoreTypeStep DEF Working, TypeOK
<1>5. ASSUME NEW j \in Jobs, Creating(j) \/ Deleting(j)
      PROVE  TypeOK'
    <2>1. ProcessTypeOK' /\ ExecutorTypeOK' /\ SchedulerTypeOK'
        BY <1>1, <1>5
           DEF Creating, Deleting, ProcessTypeOK, ExecutorTypeOK, execVars, historyVars,
               Busy, HasRecord, SchedulerTypeOK, schedVars
    <2> QED BY <1>5, <2>1, HandlerTypeStep DEF Creating, Deleting, TypeOK
<1>6. CASE Signal \/ StopExecutor \/ Restart
    <2>1. ProcessTypeOK'
        BY <1>1, <1>6 DEF Signal, StopExecutor, Restart, ProcessTypeOK, MainPc
    <2> QED BY <1>6, <2>1, QuietTypeStep DEF Signal, StopExecutor, Restart
<1>7. CASE Exit \/ Crash
    BY <1>7, ProcessGoneType DEF Exit, Crash
<1>8. CASE UNCHANGED vars
    <2>1. ProcessTypeOK'
        BY <1>1, <1>8 DEF vars, ProcessTypeOK
    <2> QED BY <1>8, <2>1, QuietTypeStep DEF vars
<1> QED BY <1>2, <1>3, <1>4, <1>5, <1>6, <1>7, <1>8 DEF Next

\* Every variable keeps its type in every behaviour: the queue and the batch hold
\* job IDs only, a busy worker has a job and, once GetJob has answered, a record.
THEOREM TypeCorrect == Spec => []TypeOK
<1>1. Init => TypeOK
    BY TypeInit
<1>2. TypeOK /\ [Next]_vars => TypeOK'
    BY TypeNext
<1> QED BY <1>1, <1>2, PTL DEF Spec

-----------------------------------------------------------------------------
(***************************************************************************)
(* Every job has one owner: Ownership is preserved by every step, hence    *)
(* SingleOwner holds for every set of jobs and workers, across failed      *)
(* store calls, shutdowns, crashes and restarts.                           *)
(***************************************************************************)

(* Sequences without repetition. *)

LEMMA TailDistinct ==
    ASSUME NEW S, NEW s \in Seq(S), s # <<>>,
           \A a, b \in 1 .. Len(s) : s[a] = s[b] => a = b
    PROVE  /\ \A i \in 1 .. Len(Tail(s)) : \E k \in 1 .. Len(s) : Tail(s)[i] = s[k]
           /\ \A i \in 1 .. Len(Tail(s)) : Tail(s)[i] # Head(s)
           /\ \A a, b \in 1 .. Len(Tail(s)) : Tail(s)[a] = Tail(s)[b] => a = b
<1>1. /\ Len(Tail(s)) = Len(s) - 1
      /\ Len(s) \in Nat
      /\ \A i \in 1 .. Len(Tail(s)) : Tail(s)[i] = s[i + 1]
    OBVIOUS
<1>2. Head(s) = s[1] /\ 1 \in 1 .. Len(s)
    OBVIOUS
<1>3. ASSUME NEW i \in 1 .. Len(Tail(s))
      PROVE  i + 1 \in 1 .. Len(s) /\ i + 1 # 1
    BY <1>1
<1> QED BY <1>1, <1>2, <1>3

LEMMA AppendDistinct ==
    ASSUME NEW S, NEW s \in Seq(S), NEW x \in S,
           \A a, b \in 1 .. Len(s) : s[a] = s[b] => a = b,
           ~ \E i \in 1 .. Len(s) : s[i] = x
    PROVE  /\ \A i \in 1 .. Len(Append(s, x)) :
                Append(s, x)[i] = x \/ \E k \in 1 .. Len(s) : Append(s, x)[i] = s[k]
           /\ \A a, b \in 1 .. Len(Append(s, x)) :
                Append(s, x)[a] = Append(s, x)[b] => a = b
<1>1. /\ Len(Append(s, x)) = Len(s) + 1
      /\ Len(s) \in Nat
      /\ Append(s, x)[Len(s) + 1] = x
      /\ \A i \in 1 .. Len(s) : Append(s, x)[i] = s[i]
    OBVIOUS
<1>2. \A i \in 1 .. Len(Append(s, x)) : i \in 1 .. Len(s) \/ i = Len(s) + 1
    BY <1>1
<1> QED BY <1>1, <1>2

-----------------------------------------------------------------------------

LEMMA OwnershipInit == Init => Ownership
BY DEF Init, Ownership, StoreInit, ExecutorInit, SchedulerInit, ApiInit, Stored, Scheduled,
       InBatch, InHand, Queued, Held, Claimed, Busy

(* Steps that move no job between the batch, the queue and the workers, but may *)
(* let go of one, create one, or schedule one that nobody claims.               *)
LEMMA OwnershipKept ==
    ASSUME Ownership,
           UNCHANGED <<queue, batch, schedPc>>,
           issued \subseteq issued',
           deleting' \subseteq deleting \cup issued',
           \A v \in Workers : Busy(v)' => Busy(v) /\ workerJob'[v] = workerJob[v],
           \A j \in Jobs : Stored(j)' => Stored(j) \/ j \in issued',
           \A j \in Jobs : Scheduled(j)' => Scheduled(j) \/ (j \in issued' /\ ~Claimed(j)')
    PROVE  Ownership'
<1>1. \A j \in Jobs : /\ InBatch(j)' <=> InBatch(j)
                      /\ InHand(j)' <=> InHand(j)
                      /\ Queued(j)' <=> Queued(j)
                      /\ Held(j)' => Held(j)
    BY DEF InBatch, InHand, Queued, Held
<1>2. \A j \in Jobs : Claimed(j)' => Claimed(j)
    BY <1>1 DEF Claimed
<1>3. \A j \in Jobs \ issued' :
        /\ ~Stored(j)' /\ ~Scheduled(j)' /\ j \notin deleting'
        /\ ~InBatch(j)' /\ ~Queued(j)' /\ ~Held(j)'
    BY <1>1 DEF Ownership
<1>4. \A j \in Jobs : /\ InBatch(j)' => ~Queued(j)' /\ ~Held(j)'
                      /\ Queued(j)' => ~Held(j)'
                      /\ Claimed(j)' => ~Scheduled(j)'
    BY <1>1, <1>2 DEF Ownership
<1>5. \A v, w \in Workers : Busy(v)' /\ Busy(w)' /\ workerJob'[v] = workerJob'[w] => v = w
    BY DEF Ownership
<1> QED BY <1>3, <1>4, <1>5 DEF Ownership

(* A worker that keeps its job, or lets go of it, having written at most the hash *)
(* and the schedule entry of that job: the entry only if it lets go.              *)
LEMMA WorkerKeepsOwnership ==
    ASSUME TypeOK, Ownership, NEW w \in Workers,
           UNCHANGED <<queue, schedVars, apiVars>>,
           \/ /\ workerJob' = workerJob
              /\ \A v \in Workers : Busy(v)' => Busy(v)
              /\ \A j \in Jobs : Scheduled(j)' => Scheduled(j)
           \/ Busy(w) /\ Release(w),
           \A j \in Jobs : Stored(j)' => Stored(j) \/ (Busy(w) /\ j = workerJob[w]),
           \A j \in Jobs : Scheduled(j)' => Scheduled(j) \/ (Busy(w) /\ j = workerJob[w])
    PROVE  Ownership'
<1>1. \A v \in Workers : Busy(v)' => Busy(v) /\ workerJob'[v] = workerJob[v]
    BY DEF Release, Busy, TypeOK, ExecutorTypeOK
<1>2. \A j \in Jobs : Busy(w) /\ j = workerJob[w] => j \in issued
    BY DEF Ownership, Held
<1>3. ASSUME NEW j \in Jobs, Scheduled(j)', ~Scheduled(j)
      PROVE  ~Claimed(j)'
    <2>1. Busy(w) /\ j = workerJob[w] /\ Release(w)
        BY <1>3
    <2>2. ~Busy(w)'
        BY <2>1 DEF Release, Busy, TypeOK, ExecutorTypeOK
    <2>3. ~Held(j)'
        BY <1>1, <2>1, <2>2 DEF Held, Ownership
    <2>4. Held(j) /\ ~Queued(j) /\ ~InBatch(j)
        BY <2>1 DEF Held, Ownership
    <2>5. ~InHand(j)
        BY <2>4 DEF InHand, InBatch, TypeOK, SchedulerTypeOK
    <2> QED BY <2>3, <2>4, <2>5 DEF Claimed, InHand, Queued, schedVars
<1> QED BY <1>1, <1>2, <1>3, OwnershipKept DEF schedVars, apiVars

LEMMA WorkerTakeOwnership ==
    ASSUME TypeOK, Ownership, NEW w \in Workers, WorkerTake(w),
           UNCHANGED <<schedVars, apiVars>>
    PROVE  Ownership'
<1> DEFINE taken == Head(queue)
<1>1. queue \in Seq(Jobs) /\ queue # <<>> /\ queue' = Tail(queue)
    BY DEF WorkerTake, TypeOK, ExecutorTypeOK
<1>2. taken \in Jobs /\ Queued(taken)
    BY <1>1 DEF Queued
<1>3. /\ \A j \in Jobs : Queued(j)' => Queued(j) /\ j # taken
      /\ \A a, b \in 1 .. Len(queue') : queue'[a] = queue'[b] => a = b
    BY <1>1, TailDistinct DEF Ownership, Queued
<1>4. /\ ~Busy(w) /\ workerJob'[w] = taken
      /\ \A v \in Workers \ {w} : Busy(v)' <=> Busy(v)
      /\ \A v \in Workers \ {w} : workerJob'[v] = workerJob[v]
    BY DEF WorkerTake, Goto, Busy, TypeOK, ExecutorTypeOK
<1> HIDE DEF taken
<1>5. \A j \in Jobs : Held(j)' => Held(j) \/ j = taken
    BY <1>4 DEF Held
<1>6. \A j \in Jobs : /\ InBatch(j)' <=> InBatch(j)
                      /\ InHand(j)' <=> InHand(j)
                      /\ Stored(j)' <=> Stored(j)
                      /\ Scheduled(j)' <=> Scheduled(j)
    BY DEF WorkerTake, InBatch, InHand, Stored, Scheduled, storeVars, schedVars
<1>7. taken \in issued /\ ~InBatch(taken) /\ ~Held(taken) /\ ~Scheduled(taken)
    BY <1>2 DEF Ownership, Claimed
<1>8. \A v, u \in Workers : Busy(v)' /\ Busy(u)' /\ workerJob'[v] = workerJob'[u] => v = u
    BY <1>4, <1>7 DEF Held, Ownership
<1>9. \A j \in Jobs \ issued' :
        /\ ~Stored(j)' /\ ~Scheduled(j)' /\ j \notin deleting'
        /\ ~InBatch(j)' /\ ~Queued(j)' /\ ~Held(j)'
    BY <1>3, <1>5, <1>6, <1>7 DEF Ownership, apiVars
<1>10. \A j \in Jobs : /\ InBatch(j)' => ~Queued(j)' /\ ~Held(j)'
                       /\ Queued(j)' => ~Held(j)'
                       /\ Claimed(j)' => ~Scheduled(j)'
    BY <1>3, <1>5, <1>6, <1>7 DEF Ownership, Claimed
<1> QED BY <1>3, <1>8, <1>9, <1>10 DEF Ownership, schedVars

LEMMA WorkerOwnership ==
    ASSUME TypeOK, Ownership, NEW w \in Workers, WorkerStep(w),
           UNCHANGED <<schedVars, apiVars>>
    PROVE  Ownership'
<1>1. workerPc \in [Workers -> WorkerPc] /\ StoreTypeOK
    BY DEF TypeOK, ExecutorTypeOK
<1>2. CASE WorkerTake(w)
    BY <1>2, WorkerTakeOwnership
<1>3. CASE \/ WorkerExit(w) \/ WorkerFire(w) \/ WorkerSucceeds(w)
           \/ WorkerRefused(w) \/ WorkerFails(w)
    <2>1. /\ UNCHANGED <<storeVars, queue, workerJob>>
          /\ \A v \in Workers : Busy(v)' => Busy(v)
        BY <1>1, <1>3 DEF WorkerExit, WorkerFire, WorkerSucceeds, WorkerRefused, WorkerFails,
                          Goto, Busy, historyVars
    <2> QED BY <2>1, WorkerKeepsOwnership DEF Stored, Scheduled, storeVars
<1>4. CASE WorkerLoad(w) \/ WorkerAbandon(w)
    <2>1. UNCHANGED <<storeVars, queue>> /\ Busy(w)
        BY <1>4 DEF WorkerLoad, WorkerAbandon, Busy
    <2>2. \/ Release(w)
          \/ workerJob' = workerJob /\ \A v \in Workers : Busy(v)' => Busy(v)
        BY <1>1, <1>4 DEF WorkerLoad, WorkerAbandon, Goto, Busy
    <2> QED BY <2>1, <2>2, WorkerKeepsOwnership DEF Stored, Scheduled, storeVars
<1>5. CASE WorkerDelete(w)
    <2>1. Busy(w) /\ Release(w) /\ UNCHANGED queue
        BY <1>5 DEF WorkerDelete, Busy
    <2>2. \A j \in Jobs : /\ Stored(j)' => Stored(j)
                          /\ Scheduled(j)' => Scheduled(j)
        BY <1>1, <1>5 DEF WorkerDelete, DeleteJob, Stored, Scheduled, storeVars, StoreTypeOK
    <2> QED BY <2>1, <2>2, WorkerKeepsOwnership
<1>6. CASE WorkerUpdate(w)
    <2>1. Busy(w) /\ UNCHANGED <<queue, schedule>>
        BY <1>6 DEF WorkerUpdate, UpdateJob, Busy
    <2>2. \A j \in Jobs : Stored(j)' => Stored(j) \/ j = workerJob[w]
        BY <1>1, <1>6 DEF WorkerUpdate, UpdateJob, Stored, StoreTypeOK
    <2>3. \/ Release(w)
          \/ workerJob' = workerJob /\ \A v \in Workers : Busy(v)' => Busy(v)
        BY <1>1, <1>6 DEF WorkerUpdate, Goto, Busy
    <2> QED BY <2>1, <2>2, <2>3, WorkerKeepsOwnership DEF Scheduled
<1>7. CASE WorkerReschedule(w)
    <2>1. Busy(w) /\ Release(w) /\ UNCHANGED <<queue, jobs>>
        BY <1>7 DEF WorkerReschedule, AddToSchedule, Busy
    <2>2. \A j \in Jobs : Scheduled(j)' => Scheduled(j) \/ j = workerJob[w]
        BY <1>1, <1>7 DEF WorkerReschedule, AddToSchedule, Scheduled, StoreTypeOK
    <2> QED BY <2>1, <2>2, WorkerKeepsOwnership DEF Stored
<1> QED BY <1>2, <1>3, <1>4, <1>5, <1>6, <1>7 DEF WorkerStep

-----------------------------------------------------------------------------

LEMMA PollFetchOwnership ==
    ASSUME TypeOK, Ownership, PollFetch, UNCHANGED apiVars
    PROVE  Ownership'
<1>1. batch = <<>>
    BY DEF PollFetch, TypeOK, SchedulerTypeOK
<1>2. /\ \A i \in 1 .. Len(batch') : Scheduled(batch'[i])
      /\ \A a, b \in 1 .. Len(batch') : batch'[a] = batch'[b] => a = b
    <2>1. CASE batch' = <<>>
        BY <2>1
    <2>2. CASE batch' \in GetDueJobs(pollNow)
        BY <2>2, GetDueJobsResult
    <2> QED BY <2>1, <2>2 DEF PollFetch
<1>3. schedPc' # "dispatch"
    BY DEF PollFetch
<1>4. \A j \in Jobs : /\ InBatch(j)' => Scheduled(j)
                      /\ ~InHand(j)'
                      /\ Queued(j)' <=> Queued(j)
                      /\ Held(j)' <=> Held(j)
                      /\ Stored(j)' <=> Stored(j)
                      /\ Scheduled(j)' <=> Scheduled(j)
    BY <1>2, <1>3 DEF PollFetch, InBatch, InHand, Queued, Held, Busy, Stored, Scheduled,
                      storeVars, execVars
<1>5. \A j \in Jobs \ issued' :
        /\ ~Stored(j)' /\ ~Scheduled(j)' /\ j \notin deleting'
        /\ ~InBatch(j)' /\ ~Queued(j)' /\ ~Held(j)'
    BY <1>4 DEF Ownership, apiVars
<1>6. \A j \in Jobs : /\ InBatch(j)' => ~Queued(j)' /\ ~Held(j)'
                      /\ Queued(j)' => ~Held(j)'
                      /\ Claimed(j)' => ~Scheduled(j)'
    BY <1>4 DEF Ownership, Claimed
<1>7. /\ \A a, b \in 1 .. Len(queue') : queue'[a] = queue'[b] => a = b
      /\ \A v, w \in Workers :
            Busy(v)' /\ Busy(w)' /\ workerJob'[v] = workerJob'[w] => v = w
    BY DEF PollFetch, execVars, Busy, Ownership
<1> QED BY <1>2, <1>5, <1>6, <1>7 DEF Ownership

LEMMA PollRemoveOwnership ==
    ASSUME TypeOK, Ownership, PollRemove, UNCHANGED apiVars
    PROVE  Ownership'
<1>1. PICK outcome \in WriteOutcomes :
        /\ RemoveFromSchedule(Head(batch), outcome)
        /\ \/ outcome = "ok" /\ schedPc' = "dispatch" /\ UNCHANGED batch
           \/ NextInBatch
    BY DEF PollRemove
<1>2. batch \in Seq(Jobs) /\ batch # <<>> /\ Head(batch) \in Jobs /\ StoreTypeOK
    BY DEF PollRemove, TypeOK, SchedulerTypeOK
<1>3. \A j \in Jobs : /\ Stored(j)' <=> Stored(j)
                      /\ Scheduled(j)' => Scheduled(j)
                      /\ outcome = "ok" /\ j = Head(batch) => ~Scheduled(j)'
    BY <1>1, <1>2 DEF RemoveFromSchedule, Stored, Scheduled, StoreTypeOK, Written
<1>4. /\ \A j \in Jobs : InBatch(j)' => InBatch(j)
      /\ \A a, b \in 1 .. Len(batch') : batch'[a] = batch'[b] => a = b
    <2>1. \A a, b \in 1 .. Len(batch) : batch[a] = batch[b] => a = b
        BY DEF Ownership
    <2>2. CASE UNCHANGED batch
        BY <2>1, <2>2 DEF InBatch
    <2>3. CASE batch' = Tail(batch)
        BY <1>2, <2>1, <2>3, TailDistinct DEF InBatch
    <2> QED BY <1>1, <2>2, <2>3 DEF NextInBatch
<1>5. \A j \in Jobs : InHand(j)' => ~Scheduled(j)' /\ InBatch(j)'
    BY <1>1, <1>2, <1>3 DEF NextInBatch, InHand, InBatch
<1>6. \A j \in Jobs : /\ Queued(j)' <=> Queued(j)
                      /\ Held(j)' <=> Held(j)
    BY DEF PollRemove, Queued, Held, Busy, execVars
<1>7. \A j \in Jobs \ issued' :
        /\ ~Stored(j)' /\ ~Scheduled(j)' /\ j \notin deleting'
        /\ ~InBatch(j)' /\ ~Queued(j)' /\ ~Held(j)'
    BY <1>3, <1>4, <1>6 DEF Ownership, apiVars
<1>8. \A j \in Jobs : /\ InBatch(j)' => ~Queued(j)' /\ ~Held(j)'
                      /\ Queued(j)' => ~Held(j)'
                      /\ Claimed(j)' => ~Scheduled(j)'
    BY <1>3, <1>4, <1>5, <1>6 DEF Ownership, Claimed
<1>9. /\ \A a, b \in 1 .. Len(queue') : queue'[a] = queue'[b] => a = b
      /\ \A v, w \in Workers :
            Busy(v)' /\ Busy(w)' /\ workerJob'[v] = workerJob'[w] => v = w
    BY DEF PollRemove, execVars, Busy, Ownership
<1> QED BY <1>4, <1>7, <1>8, <1>9 DEF Ownership

LEMMA PollDispatchOwnership ==
    ASSUME TypeOK, Ownership, PollDispatch, UNCHANGED apiVars
    PROVE  Ownership'
<1> DEFINE sent == Head(batch)
<1>1. /\ batch \in Seq(Jobs) /\ batch # <<>> /\ batch' = Tail(batch)
      /\ queue \in Seq(Jobs) /\ queue' = Append(queue, sent)
      /\ schedPc' # "dispatch"
    BY DEF PollDispatch, Dispatch, NextInBatch, TypeOK, SchedulerTypeOK, ExecutorTypeOK
<1>2. sent \in Jobs /\ InBatch(sent) /\ InHand(sent)
    BY <1>1 DEF InBatch, InHand, PollDispatch
<1>3. sent \in issued /\ ~Queued(sent) /\ ~Held(sent) /\ ~Scheduled(sent)
    BY <1>2 DEF Ownership, Claimed
<1>4. /\ \A j \in Jobs : InBatch(j)' => InBatch(j) /\ j # sent
      /\ \A a, b \in 1 .. Len(batch') : batch'[a] = batch'[b] => a = b
    BY <1>1, TailDistinct DEF InBatch, Ownership
<1>5. /\ \A j \in Jobs : Queued(j)' => Queued(j) \/ j = sent
      /\ \A a, b \in 1 .. Len(queue') : queue'[a] = queue'[b] => a = b
    <2> HIDE DEF sent
    <2> QED BY <1>1, <1>2, <1>3, AppendDistinct DEF Queued, Ownership
<1> HIDE DEF sent
<1>6. \A j \in Jobs : /\ ~InHand(j)'
                      /\ Held(j)' <=> Held(j)
                      /\ Stored(j)' <=> Stored(j)
                      /\ Scheduled(j)' <=> Scheduled(j)
    BY <1>1 DEF PollDispatch, InHand, Held, Busy, Stored, Scheduled, storeVars
<1>7. \A j \in Jobs \ issued' :
        /\ ~Stored(j)' /\ ~Scheduled(j)' /\ j \notin deleting'
        /\ ~InBatch(j)' /\ ~Queued(j)' /\ ~Held(j)'
    BY <1>3, <1>4, <1>5, <1>6 DEF Ownership, apiVars
<1>8. \A j \in Jobs : /\ InBatch(j)' => ~Queued(j)' /\ ~Held(j)'
                      /\ Queued(j)' => ~Held(j)'
                      /\ Claimed(j)' => ~Scheduled(j)'
    BY <1>3, <1>4, <1>5, <1>6 DEF Ownership, Claimed
<1>9. \A v, w \in Workers : Busy(v)' /\ Busy(w)' /\ workerJob'[v] = workerJob'[w] => v = w
    BY DEF PollDispatch, Busy, Ownership
<1> QED BY <1>4, <1>5, <1>7, <1>8, <1>9 DEF Ownership

-----------------------------------------------------------------------------

LEMMA HandlerOwnership ==
    ASSUME TypeOK, Ownership, NEW j \in Jobs,
           HandleCreate(j) \/ HandleDeleteLookup(j) \/ HandleDelete(j),
           UNCHANGED <<execVars, schedVars>>
    PROVE  Ownership'
<1>1. /\ UNCHANGED <<queue, batch, schedPc>>
      /\ \A v \in Workers : Busy(v)' => Busy(v) /\ workerJob'[v] = workerJob[v]
    BY DEF execVars, schedVars, Busy
<1>2. StoreTypeOK
    BY DEF TypeOK
<1>3. CASE HandleCreate(j)
    <2>1. \A i \in Jobs \ {j} : /\ Stored(i)' <=> Stored(i)
                                /\ Scheduled(i)' <=> Scheduled(i)
        BY <1>2, <1>3 DEF HandleCreate, CreateJob, Stored, Scheduled, StoreTypeOK, storeVars
    <2>2. issued' = issued \cup {j} /\ deleting' = deleting /\ j \notin issued
        BY <1>3 DEF HandleCreate
    <2>3. ~Claimed(j)'
        <3>1. ~InBatch(j) /\ ~Queued(j) /\ ~Held(j)
            BY <2>2 DEF Ownership
        <3>2. ~InHand(j)
            BY <3>1 DEF InHand, InBatch, TypeOK, SchedulerTypeOK
        <3> QED BY <1>1, <3>1, <3>2 DEF Claimed, InHand, Queued, Held
    <2> QED BY <1>1, <2>1, <2>2, <2>3, OwnershipKept
<1>4. CASE HandleDeleteLookup(j)
    <2>1. UNCHANGED <<jobs, schedule, issued>> /\ deleting' = deleting \cup {j} /\ Stored(j)
        BY <1>4 DEF HandleDeleteLookup, storeVars
    <2>2. j \in issued
        BY <2>1 DEF Ownership
    <2> QED BY <1>1, <2>1, <2>2, OwnershipKept DEF Stored, Scheduled
<1>5. CASE HandleDelete(j)
    <2>1. \A i \in Jobs : /\ Stored(i)' => Stored(i)
                          /\ Scheduled(i)' => Scheduled(i)
        BY <1>2, <1>5 DEF HandleDelete, DeleteJob, Stored, Scheduled, StoreTypeOK, storeVars
    <2>2. issued' = issued /\ deleting' \subseteq deleting
        BY <1>5 DEF HandleDelete
    <2> QED BY <1>1, <2>1, <2>2, OwnershipKept
<1> QED BY <1>3, <1>4, <1>5

LEMMA ProcessGoneOwnership ==
    ASSUME Ownership, ProcessGone
    PROVE  Ownership'
<1>1. \A j \in Jobs : /\ ~InBatch(j)' /\ ~InHand(j)' /\ ~Queued(j)' /\ ~Held(j)'
                      /\ Stored(j)' <=> Stored(j)
                      /\ Scheduled(j)' <=> Scheduled(j)
    BY DEF ProcessGone, ExecutorFresh, SchedulerFresh, InBatch, InHand, Queued, Held, Busy,
           Stored, Scheduled, storeVars
<1> QED BY <1>1
        DEF ProcessGone, ExecutorFresh, SchedulerFresh, Ownership, Claimed, Busy

LEMMA OwnershipNext ==
    ASSUME TypeOK, Ownership, [Next]_vars
    PROVE  Ownership'
<1>1. CASE Tick \/ Signal \/ StopExecutor \/ Restart \/ UNCHANGED vars
    <2>1. UNCHANGED <<storeVars, execVars, schedVars, apiVars>>
        BY <1>1 DEF Tick, Signal, StopExecutor, Restart, vars
    <2> QED BY <2>1, OwnershipKept
            DEF storeVars, execVars, schedVars, apiVars, Busy, Stored, Scheduled
<1>2. CASE Scheduling
    <2>1. CASE PollStart \/ SchedulerExit
        <3>1. /\ UNCHANGED <<storeVars, execVars, batch, apiVars>>
              /\ schedPc # "dispatch" /\ schedPc' # "dispatch"
            BY <1>2, <2>1 DEF Scheduling, PollStart, SchedulerExit
        <3>2. \A j \in Jobs : /\ ~InHand(j) /\ ~InHand(j)'
                              /\ InBatch(j)' <=> InBatch(j)
                              /\ Queued(j)' <=> Queued(j)
                              /\ Held(j)' <=> Held(j)
                              /\ Stored(j)' <=> Stored(j)
                              /\ Scheduled(j)' <=> Scheduled(j)
            BY <3>1 DEF InHand, InBatch, Queued, Held, Busy, Stored, Scheduled, storeVars,
                        execVars
        <3>3. \A v \in Workers : Busy(v)' <=> Busy(v)
            BY <3>1 DEF Busy, execVars
        <3> QED BY <3>1, <3>2, <3>3 DEF Ownership, Claimed, execVars, apiVars
    <2> QED BY <1>2, <2>1, PollFetchOwnership, PollRemoveOwnership, PollDispatchOwnership
            DEF Scheduling, SchedulerStep
<1>3. ASSUME NEW w \in Workers, Working(w)
      PROVE  Ownership'
    BY <1>3, WorkerOwnership DEF Working
<1>4. ASSUME NEW j \in Jobs, Creating(j) \/ Deleting(j)
      PROVE  Ownership'
    BY <1>4, HandlerOwnership DEF Creating, Deleting
<1>5. CASE Exit \/ Crash
    BY <1>5, ProcessGoneOwnership DEF Exit, Crash
<1> QED BY <1>1, <1>2, <1>3, <1>4, <1>5 DEF Next

\* The inductive invariant of the two theorems that follow.
THEOREM OwnershipHolds == Spec => []Ownership
<1>1. Init => TypeOK /\ Ownership
    BY TypeInit, OwnershipInit
<1>2. TypeOK /\ Ownership /\ [Next]_vars => (TypeOK /\ Ownership)'
    BY TypeNext, OwnershipNext
<1> QED BY <1>1, <1>2, PTL DEF Spec

\* Ownership is stronger than SingleOwner.
LEMMA OwnershipSuffices == TypeOK /\ Ownership => SingleOwner
<1> SUFFICES ASSUME TypeOK, Ownership
             PROVE  SingleOwner
    OBVIOUS
<1>1. \A j \in Jobs : InHand(j) => InBatch(j)
    BY DEF InHand, InBatch, TypeOK, SchedulerTypeOK
<1> QED BY <1>1 DEF Ownership, SingleOwner, ClaimedOnce

\* No two executions of a job overlap, and none can start while one is under way,
\* for any number of jobs and workers and any failure of the store or the process.
THEOREM OneExecutionAtATime == Spec => []SingleOwner
<1>1. TypeOK /\ Ownership => SingleOwner
    BY OwnershipSuffices
<1> QED BY <1>1, TypeCorrect, OwnershipHolds, PTL

-----------------------------------------------------------------------------
(***************************************************************************)
(* The two places a due time is kept in, the score and the job's hash, are *)
(* written by two commands; ScheduleMatchesRecord says they agree whenever *)
(* the job is scheduled.                                                   *)
(***************************************************************************)

\* What makes ScheduleMatchesRecord inductive: a worker about to put its job back
\* has already stored the record it will be scheduled by, unless it was deleted.
RescheduleMatchesRecord ==
    \A w \in Workers :
        workerPc[w] = "reschedule" /\ Stored(workerJob[w]) =>
            /\ jobs[workerJob[w]].due = workerRec[w].due
            /\ jobs[workerJob[w]].status = "pending"

RecordInv == ScheduleMatchesRecord /\ RescheduleMatchesRecord

LEMMA HSetKeeps ==
    ASSUME NEW old \in JobRecord \cup {Absent}, NEW rec \in JobRecord
    PROVE  HSet(old, rec).due = rec.due /\ HSet(old, rec).status = rec.status
BY DEF HSet, JobRecord

LEMMA RecordInit == Init => RecordInv
BY DEF Init, RecordInv, ScheduleMatchesRecord, RescheduleMatchesRecord, StoreInit,
       ExecutorInit, Scheduled, Stored

(* Steps that write no record, schedule nothing and send no worker to "reschedule". *)
LEMMA RecordKept ==
    ASSUME RecordInv,
           \A j \in Jobs : Stored(j)' => Stored(j) /\ jobs'[j] = jobs[j],
           \A j \in Jobs : Scheduled(j)' => Scheduled(j) /\ schedule'[j] = schedule[j],
           \A w \in Workers :
                workerPc'[w] = "reschedule" =>
                    /\ workerPc[w] = "reschedule"
                    /\ workerJob'[w] = workerJob[w] /\ workerRec'[w] = workerRec[w]
                    /\ workerJob[w] \in Jobs
    PROVE  RecordInv'
<1>1. ScheduleMatchesRecord'
    BY DEF RecordInv, ScheduleMatchesRecord
<1>2. RescheduleMatchesRecord'
    BY DEF RecordInv, RescheduleMatchesRecord
<1> QED BY <1>1, <1>2 DEF RecordInv

LEMMA WorkerUpdateRecord ==
    ASSUME TypeOK, Ownership, RecordInv, NEW w \in Workers, WorkerUpdate(w)
    PROVE  RecordInv'
<1> DEFINE j == workerJob[w]
           rec == workerRec[w]
           stored == HSet(jobs[j], rec)
<1>1. PICK outcome \in WriteOutcomes :
        /\ UpdateJob(j, rec, outcome)
        /\ \/ Continues(outcome, rec) /\ Goto(w, "reschedule") /\ UNCHANGED <<workerJob, workerRec>>
           \/ Release(w)
    BY DEF WorkerUpdate
<1>2. /\ j \in Jobs /\ rec \in JobRecord /\ Busy(w) /\ Held(j)
      /\ workerPc \in [Workers -> WorkerPc] /\ jobs \in [Jobs -> JobRecord \cup {Absent}]
    BY DEF WorkerUpdate, TypeOK, ExecutorTypeOK, StoreTypeOK, Busy, HasRecord, Held
<1>3. stored.due = rec.due /\ stored.status = rec.status
    BY <1>2, HSetKeeps
<1>4. ~Scheduled(j)
    BY <1>2 DEF Ownership, Claimed
<1>5. \A v \in Workers \ {w} : workerPc[v] = "reschedule" => workerJob[v] \in Jobs \ {j}
    BY <1>2 DEF Ownership, Busy, TypeOK, ExecutorTypeOK
<1>6. /\ schedule' = schedule
      /\ \A i \in Jobs \ {j} : jobs'[i] = jobs[i]
      /\ Continues(outcome, rec) => jobs'[j] = stored
    BY <1>1, <1>2 DEF UpdateJob, Continues, Written
<1> HIDE DEF j, rec, stored
<1>7. ScheduleMatchesRecord'
    BY <1>4, <1>6 DEF RecordInv, ScheduleMatchesRecord, Scheduled, Stored
<1>8. ASSUME NEW v \in Workers, workerPc'[v] = "reschedule", Stored(workerJob[v])'
      PROVE  /\ jobs'[workerJob'[v]].due = workerRec'[v].due
             /\ jobs'[workerJob'[v]].status = "pending"
    <2>1. CASE v = w
        <3>1. Continues(outcome, rec) /\ UNCHANGED <<workerJob, workerRec>>
            BY <1>1, <1>2, <1>8, <2>1 DEF Release
        <3> QED BY <1>3, <1>6, <2>1, <3>1 DEF Continues, j, rec
    <2>2. CASE v # w
        <3>1. /\ workerPc[v] = "reschedule"
              /\ workerJob'[v] = workerJob[v] /\ workerRec'[v] = workerRec[v]
            BY <1>1, <1>2, <1>8, <2>2 DEF Release, Goto, TypeOK, ExecutorTypeOK
        <3>2. workerJob[v] \in Jobs \ {j}
            BY <1>5, <2>2, <3>1
        <3> QED BY <1>6, <1>8, <3>1, <3>2 DEF RecordInv, RescheduleMatchesRecord, Stored
    <2> QED BY <2>1, <2>2
<1>9. RescheduleMatchesRecord'
    BY <1>8 DEF RescheduleMatchesRecord
<1> QED BY <1>7, <1>9 DEF RecordInv

LEMMA WorkerRescheduleRecord ==
    ASSUME TypeOK, Ownership, RecordInv, NEW w \in Workers, WorkerReschedule(w)
    PROVE  RecordInv'
<1> DEFINE j == workerJob[w]
           rec == workerRec[w]
<1>1. PICK outcome \in WriteOutcomes : AddToSchedule(j, rec.due, outcome)
    BY DEF WorkerReschedule
<1>2. /\ j \in Jobs /\ Busy(w) /\ Release(w) /\ jobs' = jobs
      /\ schedule \in [Jobs -> Int \cup {Absent}]
      /\ workerPc \in [Workers -> WorkerPc]
    BY <1>1 DEF WorkerReschedule, AddToSchedule, TypeOK, ExecutorTypeOK, StoreTypeOK, Busy
<1>3. Stored(j) => jobs[j].due = rec.due /\ jobs[j].status = "pending"
    BY DEF WorkerReschedule, RecordInv, RescheduleMatchesRecord
<1>4. /\ \A i \in Jobs \ {j} : schedule'[i] = schedule[i]
      /\ schedule'[j] = schedule[j] \/ schedule'[j] = rec.due
    BY <1>1, <1>2 DEF AddToSchedule
<1>5. ScheduleMatchesRecord'
    <2> HIDE DEF j, rec
    <2> QED BY <1>2, <1>3, <1>4 DEF RecordInv, ScheduleMatchesRecord, Scheduled, Stored
<1>6. RescheduleMatchesRecord'
    <2>1. \A v \in Workers : workerPc'[v] = "reschedule" =>
            /\ workerPc[v] = "reschedule"
            /\ workerJob'[v] = workerJob[v] /\ workerRec'[v] = workerRec[v]
        BY <1>2 DEF Release, TypeOK, ExecutorTypeOK
    <2> QED BY <1>2, <2>1 DEF RecordInv, RescheduleMatchesRecord, Stored
<1> QED BY <1>5, <1>6 DEF RecordInv

LEMMA WorkerRecord ==
    ASSUME TypeOK, Ownership, RecordInv, NEW w \in Workers, WorkerStep(w)
    PROVE  RecordInv'
<1>1. /\ workerPc \in [Workers -> WorkerPc] /\ StoreTypeOK
      /\ workerJob \in [Workers -> Jobs \cup {Absent}]
      /\ workerRec \in [Workers -> JobRecord \cup {Absent}]
      /\ \A v \in Workers : workerPc[v] = "reschedule" => workerJob[v] \in Jobs
    BY DEF TypeOK, ExecutorTypeOK, Busy
<1>2. CASE WorkerUpdate(w)
    BY <1>2, WorkerUpdateRecord
<1>3. CASE WorkerReschedule(w)
    BY <1>3, WorkerRescheduleRecord
<1>4. CASE WorkerDelete(w)
    <2>1. \A j \in Jobs : /\ Stored(j)' => Stored(j) /\ jobs'[j] = jobs[j]
                          /\ Scheduled(j)' => Scheduled(j) /\ schedule'[j] = schedule[j]
        BY <1>1, <1>4 DEF WorkerDelete, DeleteJob, Stored, Scheduled, storeVars, StoreTypeOK
    <2>2. \A v \in Workers : workerPc'[v] = "reschedule" =>
            /\ workerPc[v] = "reschedule"
            /\ workerJob'[v] = workerJob[v] /\ workerRec'[v] = workerRec[v]
        BY <1>1, <1>4 DEF WorkerDelete, Release
    <2> QED BY <1>1, <2>1, <2>2, RecordKept
<1>5. CASE \/ WorkerTake(w) \/ WorkerExit(w) \/ WorkerLoad(w) \/ WorkerAbandon(w)
           \/ WorkerFire(w) \/ WorkerSucceeds(w) \/ WorkerRefused(w) \/ WorkerFails(w)
    <2>1. UNCHANGED <<jobs, schedule>>
        BY <1>5 DEF WorkerTake, WorkerExit, WorkerLoad, WorkerAbandon, WorkerFire,
                    WorkerSucceeds, WorkerRefused, WorkerFails, storeVars
    <2>2. ASSUME NEW v \in Workers, workerPc'[v] = "reschedule"
          PROVE  /\ workerPc[v] = "reschedule"
                 /\ workerJob'[v] = workerJob[v] /\ workerRec'[v] = workerRec[v]
        <3>1. v # w /\ workerPc'[v] = workerPc[v]
            BY <1>1, <1>5, <2>2
               DEF WorkerTake, WorkerExit, WorkerLoad, WorkerAbandon, WorkerFire,
                   WorkerSucceeds, WorkerRefused, WorkerFails, Goto, Release
        <3>2. workerJob'[v] = workerJob[v] /\ workerRec'[v] = workerRec[v]
            BY <1>1, <1>5, <3>1
               DEF WorkerTake, WorkerExit, WorkerLoad, WorkerAbandon, WorkerFire,
                   WorkerSucceeds, WorkerRefused, WorkerFails, Goto, Release
        <3> QED BY <2>2, <3>1, <3>2
    <2> QED BY <1>1, <2>1, <2>2, RecordKept DEF Stored, Scheduled
<1> QED BY <1>2, <1>3, <1>4, <1>5 DEF WorkerStep

LEMMA HandlerRecord ==
    ASSUME TypeOK, Ownership, RecordInv, NEW j \in Jobs,
           HandleCreate(j) \/ HandleDeleteLookup(j) \/ HandleDelete(j),
           UNCHANGED execVars
    PROVE  RecordInv'
<1>1. /\ StoreTypeOK
      /\ \A v \in Workers : workerPc[v] = "reschedule" => workerJob[v] \in Jobs /\ Busy(v)
    BY DEF TypeOK, ExecutorTypeOK, Busy
<1>2. CASE HandleCreate(j)
    <2> DEFINE stored == HSet(jobs[j], NewJob(j))
    <2>1. stored.due = NewJob(j).due /\ stored.status = "pending"
        BY <1>1, HSetKeeps, NewJobType DEF NewJob, StoreTypeOK
    <2>2. PICK outcome \in RequestOutcomes : CreateJob(j, NewJob(j), outcome)
        BY <1>2 DEF HandleCreate
    <2>3. /\ \A i \in Jobs \ {j} : jobs'[i] = jobs[i] /\ schedule'[i] = schedule[i]
          /\ \/ jobs'[j] = stored /\ schedule'[j] = NewJob(j).due
             \/ jobs'[j] = jobs[j] /\ schedule'[j] = schedule[j]
        BY <1>1, <2>2 DEF CreateJob, StoreTypeOK, storeVars
    <2> HIDE DEF stored
    <2>4. ScheduleMatchesRecord'
        BY <2>1, <2>3 DEF RecordInv, ScheduleMatchesRecord, Scheduled, Stored
    <2>5. \A v \in Workers : workerPc[v] = "reschedule" => workerJob[v] \in Jobs \ {j}
        BY <1>1, <1>2 DEF HandleCreate, Ownership, Held
    <2>6. RescheduleMatchesRecord'
        BY <2>3, <2>5 DEF RecordInv, RescheduleMatchesRecord, Stored, execVars
    <2> QED BY <2>4, <2>6 DEF RecordInv
<1>3. CASE HandleDeleteLookup(j) \/ HandleDelete(j)
    <2>1. \A i \in Jobs : /\ Stored(i)' => Stored(i) /\ jobs'[i] = jobs[i]
                          /\ Scheduled(i)' => Scheduled(i) /\ schedule'[i] = schedule[i]
        BY <1>1, <1>3 DEF HandleDeleteLookup, HandleDelete, DeleteJob, Stored, Scheduled,
                          storeVars, StoreTypeOK
    <2> QED BY <1>1, <2>1, RecordKept DEF execVars
<1> QED BY <1>2, <1>3

LEMMA RecordNext ==
    ASSUME TypeOK, Ownership, RecordInv, [Next]_vars
    PROVE  RecordInv'
<1>1. /\ StoreTypeOK
      /\ \A v \in Workers : workerPc[v] = "reschedule" => workerJob[v] \in Jobs
    BY DEF TypeOK, ExecutorTypeOK, Busy
<1>2. CASE Tick \/ Signal \/ StopExecutor \/ Restart \/ UNCHANGED vars
    <2>1. UNCHANGED <<storeVars, execVars>>
        BY <1>2 DEF Tick, Signal, StopExecutor, Restart, vars
    <2> QED BY <1>1, <2>1, RecordKept DEF storeVars, execVars, Stored, Scheduled
<1>3. CASE Scheduling
    <2>1. /\ UNCHANGED <<jobs, workerPc, workerJob, workerRec>>
          /\ \A j \in Jobs : Scheduled(j)' => Scheduled(j) /\ schedule'[j] = schedule[j]
        BY <1>1, <1>3
           DEF Scheduling, SchedulerStep, PollStart, PollFetch, PollRemove, PollDispatch,
               SchedulerExit, RemoveFromSchedule, Scheduled, StoreTypeOK, storeVars, execVars
    <2> QED BY <1>1, <2>1, RecordKept DEF Stored
<1>4. ASSUME NEW w \in Workers, Working(w)
      PROVE  RecordInv'
    BY <1>4, WorkerRecord DEF Working
<1>5. ASSUME NEW j \in Jobs, Creating(j) \/ Deleting(j)
      PROVE  RecordInv'
    BY <1>5, HandlerRecord DEF Creating, Deleting
<1>6. CASE Exit \/ Crash
    <2>1. UNCHANGED <<jobs, schedule>> /\ workerPc' = [w \in Workers |-> "idle"]
        BY <1>6 DEF Exit, Crash, ProcessGone, ExecutorFresh, storeVars
    <2> QED BY <2>1, RecordKept DEF Stored, Scheduled
<1> QED BY <1>2, <1>3, <1>4, <1>5, <1>6 DEF Next

\* The score a job is scheduled by is the due time its record shows, and the
\* record is pending, although two commands write them and either may fail.
THEOREM ScoreIsDueTime == Spec => []ScheduleMatchesRecord
<1>1. Init => TypeOK /\ Ownership /\ RecordInv
    BY TypeInit, OwnershipInit, RecordInit
<1>2. TypeOK /\ Ownership /\ RecordInv /\ [Next]_vars
            => (TypeOK /\ Ownership /\ RecordInv)'
    BY TypeNext, OwnershipNext, RecordNext
<1>3. RecordInv => ScheduleMatchesRecord
    BY DEF RecordInv
<1> QED BY <1>1, <1>2, <1>3, PTL DEF Spec

-----------------------------------------------------------------------------
(***************************************************************************)
(* PendingIsTracked holds as long as nothing fails: whatever the polls,    *)
(* the workers and the clients do at the same time, no pending job drops   *)
(* out of the hands it goes through.                                       *)
(***************************************************************************)

\* Every store call is answered, and no process takes over from one that has stopped
\* (what that one had claimed is lost: ShutdownKeepsPending).
NothingFails == StoreFaults = {} /\ "restart" \notin Environment

LEMMA OutcomesWithoutFailure ==
    ASSUME NothingFails, mainPc = "running"
    PROVE  /\ WriteOutcomes = {"ok"} /\ ReadOutcomes = {"ok"} /\ RequestOutcomes = {"ok"}
           /\ ~CtxDone
BY DEF NothingFails, WriteOutcomes, ReadOutcomes, RequestOutcomes, CtxDone

\* Nothing but the head leaves a sequence with Tail.
LEMMA TailKeeps ==
    ASSUME NEW S, NEW s \in Seq(S), s # <<>>, NEW i \in 1 .. Len(s), s[i] # Head(s)
    PROVE  \E k \in 1 .. Len(Tail(s)) : Tail(s)[k] = s[i]
<1>1. i - 1 \in 1 .. Len(Tail(s))
    OBVIOUS
<1>2. Tail(s)[i - 1] = s[i]
    OBVIOUS
<1> QED BY <1>1, <1>2

LEMMA AppendKeeps ==
    ASSUME NEW S, NEW s \in Seq(S), NEW x \in S
    PROVE  /\ \A i \in 1 .. Len(s) : \E k \in 1 .. Len(Append(s, x)) : Append(s, x)[k] = s[i]
           /\ \E k \in 1 .. Len(Append(s, x)) : Append(s, x)[k] = x
<1>1. /\ Len(Append(s, x)) = Len(s) + 1
      /\ Len(s) \in Nat
      /\ Append(s, x)[Len(s) + 1] = x
      /\ \A i \in 1 .. Len(s) : Append(s, x)[i] = s[i]
    OBVIOUS
<1>2. /\ Len(s) + 1 \in 1 .. Len(Append(s, x))
      /\ \A i \in 1 .. Len(s) : i \in 1 .. Len(Append(s, x))
    BY <1>1
<1> QED BY <1>1, <1>2

-----------------------------------------------------------------------------

Tracked(j) == Scheduled(j) \/ Claimed(j)

Pending(j) == Stored(j) /\ jobs[j].status = "pending"

\* A step of one worker takes no job from anybody else.
LEMMA OthersStayClaimed ==
    ASSUME NEW w \in Workers, NEW j \in Jobs,
           UNCHANGED <<queue, schedVars>>,
           \A v \in Workers \ {w} :
                workerPc'[v] = workerPc[v] /\ workerJob'[v] = workerJob[v],
           Busy(w) /\ workerJob[w] = j => Busy(w)' /\ workerJob'[w] = j,
           Claimed(j)
    PROVE  Claimed(j)'
<1>1. (InHand(j)' <=> InHand(j)) /\ (Queued(j)' <=> Queued(j))
    BY DEF InHand, Queued, schedVars
<1>2. Held(j) => Held(j)'
    BY DEF Held, Busy
<1> QED BY <1>1, <1>2 DEF Claimed

LEMMA WorkerTracks ==
    ASSUME TypeOK, NothingFails, mainPc = "running", NEW w \in Workers, WorkerStep(w),
           UNCHANGED schedVars, NEW j \in Jobs, Pending(j)', Pending(j) => Tracked(j)
    PROVE  Tracked(j)'
<1>1. /\ WriteOutcomes = {"ok"} /\ ReadOutcomes = {"ok"}
      /\ ~CtxDone
    BY OutcomesWithoutFailure
<1>2. /\ \A v \in Workers : workerPc[v] \in WorkerPc
      /\ Busy(w) => workerJob[w] \in Jobs
      /\ HasRecord(w) => workerRec[w] \in JobRecord
      /\ workerPc = [v \in Workers |-> workerPc[v]] /\ workerJob = [v \in Workers |-> workerJob[v]]
      /\ jobs = [i \in Jobs |-> jobs[i]] /\ schedule = [i \in Jobs |-> schedule[i]]
      /\ queue \in Seq(Jobs)
    BY DEF TypeOK, ExecutorTypeOK, StoreTypeOK
<1>3. CASE WorkerTake(w)
    <2>1. /\ queue # <<>> /\ queue' = Tail(queue)
          /\ workerJob'[w] = Head(queue) /\ Busy(w)' /\ ~Busy(w)
          /\ \A v \in Workers \ {w} :
                workerPc'[v] = workerPc[v] /\ workerJob'[v] = workerJob[v]
          /\ UNCHANGED storeVars
        BY <1>2, <1>3 DEF WorkerTake, Goto, Busy
    <2>2. Pending(j) /\ (Scheduled(j)' <=> Scheduled(j))
        BY <2>1 DEF Pending, Stored, Scheduled, storeVars
    <2>3. CASE Queued(j) /\ j # Head(queue)
        <3>1. PICK i \in 1 .. Len(queue) : queue[i] = j
            BY <2>3 DEF Queued
        <3>2. Queued(j)'
            BY <1>2, <2>1, <2>3, <3>1, TailKeeps DEF Queued
        <3> QED BY <3>2 DEF Tracked, Claimed
    <2>4. CASE j = Head(queue)
        BY <2>1, <2>4 DEF Tracked, Claimed, Held
    <2>5. CASE Held(j)
        BY <2>1, <2>5 DEF Tracked, Claimed, Held, Busy
    <2>6. CASE InHand(j)
        BY <2>6 DEF Tracked, Claimed, InHand, schedVars
    <2> QED BY <2>2, <2>3, <2>4, <2>5, <2>6 DEF Tracked, Claimed
<1>4. CASE WorkerExit(w) \/ WorkerAbandon(w)
    BY <1>1, <1>4 DEF WorkerExit, WorkerAbandon
<1>5. CASE WorkerLoad(w)
    <2>1. PICK outcome \in ReadOutcomes :
            IF outcome = "ok" /\ Stored(workerJob[w])
            THEN Goto(w, "domain") /\ UNCHANGED workerJob
            ELSE Release(w)
        BY <1>5 DEF WorkerLoad
    <2>2. UNCHANGED <<storeVars, queue>> /\ Busy(w)
        BY <1>5 DEF WorkerLoad, Busy
    <2>3. Pending(j) /\ (Scheduled(j)' <=> Scheduled(j))
        BY <2>2 DEF Pending, Stored, Scheduled, storeVars
    <2>4. CASE Stored(workerJob[w])
        <3>1. Goto(w, "domain") /\ UNCHANGED workerJob
            BY <1>1, <2>1, <2>4
        <3> QED BY <1>2, <2>2, <2>3, <3>1, OthersStayClaimed DEF Tracked, Goto, Busy
    <2>5. CASE ~Stored(workerJob[w])
        <3>1. Release(w) /\ workerJob[w] # j
            BY <2>1, <2>3, <2>5 DEF Pending
        <3> QED BY <1>2, <2>2, <2>3, <3>1, OthersStayClaimed DEF Tracked, Release
    <2> QED BY <2>4, <2>5
<1>6. CASE WorkerFire(w) \/ WorkerSucceeds(w) \/ WorkerRefused(w) \/ WorkerFails(w)
    <2>1. /\ UNCHANGED <<storeVars, queue, workerJob>> /\ Busy(w)
          /\ \E to \in {"inflight", "delete", "update"} : Goto(w, to)
        BY <1>6 DEF WorkerFire, WorkerSucceeds, WorkerRefused, WorkerFails, Busy
    <2>2. Pending(j) /\ (Scheduled(j)' <=> Scheduled(j))
        BY <2>1 DEF Pending, Stored, Scheduled, storeVars
    <2> QED BY <1>2, <2>1, <2>2, OthersStayClaimed DEF Tracked, Goto, Busy
<1>7. CASE WorkerDelete(w)
    <2>1. DeleteJob(workerJob[w], "ok") /\ Release(w) /\ UNCHANGED queue /\ Busy(w)
        BY <1>1, <1>7 DEF WorkerDelete, Busy
    <2>2. workerJob[w] # j
        BY <1>2, <2>1 DEF DeleteJob, Written, Pending, Stored
    <2>3. Pending(j) /\ (Scheduled(j)' <=> Scheduled(j))
        BY <1>2, <2>1, <2>2 DEF DeleteJob, Written, Pending, Stored, Scheduled
    <2> QED BY <1>2, <2>1, <2>2, <2>3, OthersStayClaimed DEF Tracked, Release
<1>8. CASE WorkerUpdate(w)
    <2>1. /\ UpdateJob(workerJob[w], workerRec[w], "ok")
          /\ IF Continues("ok", workerRec[w])
             THEN Goto(w, "reschedule") /\ UNCHANGED workerJob
             ELSE Release(w)
          /\ UNCHANGED queue /\ Busy(w) /\ HasRecord(w)
        BY <1>1, <1>8 DEF WorkerUpdate, Busy, HasRecord
    <2>2. Scheduled(j)' <=> Scheduled(j)
        BY <2>1 DEF UpdateJob, Scheduled
    <2>3. CASE workerJob[w] = j
        <3>1. jobs'[j].status = workerRec[w].status
            BY <1>2, <2>1, <2>3 DEF UpdateJob, Written, HSet, JobRecord
        <3>2. Goto(w, "reschedule") /\ UNCHANGED workerJob
            BY <2>1, <3>1 DEF Continues, Pending
        <3>3. Busy(w)' /\ workerJob'[w] = j
            BY <1>2, <2>3, <3>2 DEF Goto, Busy
        <3> QED BY <3>3 DEF Tracked, Claimed, Held
    <2>4. CASE workerJob[w] # j
        <3>1. Pending(j)
            BY <1>2, <2>1, <2>4 DEF UpdateJob, Written, Pending, Stored
        <3> QED BY <1>2, <2>1, <2>2, <2>4, <3>1, OthersStayClaimed
                DEF Tracked, Goto, Release, Busy
    <2> QED BY <2>3, <2>4
<1>9. CASE WorkerReschedule(w)
    <2>1. /\ AddToSchedule(workerJob[w], workerRec[w].due, "ok")
          /\ Release(w) /\ UNCHANGED queue /\ Busy(w) /\ HasRecord(w)
        BY <1>1, <1>9 DEF WorkerReschedule, Busy, HasRecord
    <2>2. workerRec[w].due # Absent
        BY <1>2, <2>1, AbsentAssumption DEF JobRecord
    <2>3. /\ Pending(j)
          /\ Scheduled(j) => Scheduled(j)'
          /\ workerJob[w] = j => Scheduled(j)'
        BY <1>2, <2>1, <2>2 DEF AddToSchedule, Written, Pending, Stored, Scheduled
    <2> QED BY <1>2, <2>1, <2>3, OthersStayClaimed DEF Tracked, Release
<1> QED BY <1>3, <1>4, <1>5, <1>6, <1>7, <1>8, <1>9 DEF WorkerStep

LEMMA SchedulerTracks ==
    ASSUME TypeOK, NothingFails, mainPc = "running", SchedulerStep,
           NEW j \in Jobs, Pending(j)', Pending(j) => Tracked(j)
    PROVE  Tracked(j)'
<1>1. WriteOutcomes = {"ok"} /\ ~CtxDone
    BY OutcomesWithoutFailure
<1>2. /\ schedule = [i \in Jobs |-> schedule[i]]
      /\ queue \in Seq(Jobs) /\ batch \in Seq(Jobs)
      /\ schedPc \in {"remove", "dispatch"} => batch # <<>>
    BY DEF TypeOK, StoreTypeOK, ExecutorTypeOK, SchedulerTypeOK
<1>3. /\ UNCHANGED <<jobs, workerPc, workerJob>>
      /\ Pending(j)
      /\ Held(j)' <=> Held(j)
    BY DEF SchedulerStep, PollStart, PollFetch, PollRemove, RemoveFromSchedule, PollDispatch,
           SchedulerExit, execVars, storeVars, Pending, Stored, Held, Busy
<1>4. CASE PollStart \/ PollFetch \/ SchedulerExit
    <2>1. schedPc # "dispatch" /\ UNCHANGED <<schedule, queue>>
        BY <1>4 DEF PollStart, PollFetch, SchedulerExit, execVars, storeVars
    <2> QED BY <1>3, <2>1 DEF Tracked, Claimed, InHand, Queued, Scheduled
<1>5. CASE PollRemove
    <2>1. /\ RemoveFromSchedule(Head(batch), "ok")
          /\ schedPc = "remove" /\ schedPc' = "dispatch" /\ UNCHANGED <<queue, batch>>
        BY <1>1, <1>5 DEF PollRemove, execVars
    <2>2. Scheduled(j) /\ j # Head(batch) => Scheduled(j)'
        BY <1>2, <2>1 DEF RemoveFromSchedule, Written, Scheduled
    <2> QED BY <1>3, <2>1, <2>2 DEF Tracked, Claimed, InHand, Queued
<1>6. CASE PollDispatch
    <2>1. /\ schedPc = "dispatch" /\ queue' = Append(queue, Head(batch))
          /\ UNCHANGED schedule
        BY <1>6 DEF PollDispatch, Dispatch, storeVars
    <2>2. Head(batch) \in Jobs
        BY <1>2, <2>1
    <2>3. Queued(j) \/ InHand(j) => Queued(j)'
        BY <1>2, <2>1, <2>2, AppendKeeps DEF Queued, InHand
    <2> QED BY <1>3, <2>1, <2>3 DEF Tracked, Claimed, Scheduled
<1> QED BY <1>4, <1>5, <1>6 DEF SchedulerStep

LEMMA HandlerTracks ==
    ASSUME TypeOK, NothingFails, mainPc = "running", NEW i \in Jobs,
           HandleCreate(i) \/ HandleDeleteLookup(i) \/ HandleDelete(i),
           UNCHANGED <<execVars, schedVars>>,
           NEW j \in Jobs, Pending(j)', Pending(j) => Tracked(j)
    PROVE  Tracked(j)'
<1>1. Claimed(j)' <=> Claimed(j)
    BY DEF Claimed, InHand, Queued, Held, Busy, execVars, schedVars
<1>2. /\ RequestOutcomes = {"ok"}
      /\ jobs = [k \in Jobs |-> jobs[k]] /\ schedule = [k \in Jobs |-> schedule[k]]
    BY OutcomesWithoutFailure DEF TypeOK, StoreTypeOK
<1>3. CASE HandleCreate(i)
    <2>1. /\ jobs' = [jobs EXCEPT ![i] = HSet(@, NewJob(i))]
          /\ schedule' = [schedule EXCEPT ![i] = NewJob(i).due]
        BY <1>2, <1>3 DEF HandleCreate, CreateJob, Written
    <2>2. NewJob(i).due # Absent
        BY AbsentAssumption, RequestAssumption DEF NewJob, ValidRequest
    <2>3. CASE i = j
        BY <1>2, <2>1, <2>2, <2>3 DEF Tracked, Scheduled
    <2>4. CASE i # j
        BY <1>1, <1>2, <2>1, <2>4 DEF Tracked, Scheduled, Pending, Stored
    <2> QED BY <2>3, <2>4
<1>4. CASE HandleDeleteLookup(i)
    BY <1>1, <1>4 DEF HandleDeleteLookup, storeVars, Tracked, Scheduled, Pending, Stored
<1>5. CASE HandleDelete(i)
    <2>1. /\ jobs' = [jobs EXCEPT ![i] = Absent]
          /\ schedule' = [schedule EXCEPT ![i] = Absent]
        BY <1>2, <1>5 DEF HandleDelete, DeleteJob, Written
    <2>2. i # j
        BY <1>2, <2>1 DEF Pending, Stored
    <2> QED BY <1>1, <1>2, <2>1, <2>2 DEF Tracked, Scheduled, Pending, Stored
<1> QED BY <1>3, <1>4, <1>5

LEMMA TrackingNext ==
    ASSUME TypeOK, NothingFails, PendingIsTracked, [Next]_vars
    PROVE  PendingIsTracked'
<1> SUFFICES ASSUME mainPc' = "running", NEW j \in Jobs, Pending(j)'
             PROVE  Tracked(j)'
    BY DEF PendingIsTracked, Pending, Tracked
<1>1. mainPc = "running"
    BY DEF Next, Tick, Scheduling, Working, Creating, Deleting, Signal, StopExecutor, Exit,
           Crash, ProcessGone, Restart, NothingFails, vars
<1>2. Pending(j) => Tracked(j)
    BY <1>1 DEF PendingIsTracked, Pending, Tracked
<1>3. CASE Tick \/ Signal \/ StopExecutor \/ UNCHANGED vars
    BY <1>2, <1>3
       DEF Tick, Signal, StopExecutor, vars, storeVars, execVars, schedVars, Pending, Tracked,
           Stored, Scheduled, Claimed, InHand, Queued, Held, Busy
<1>4. CASE Scheduling
    BY <1>1, <1>2, <1>4, SchedulerTracks DEF Scheduling
<1>5. ASSUME NEW w \in Workers, Working(w)
      PROVE  Tracked(j)'
    BY <1>1, <1>2, <1>5, WorkerTracks DEF Working
<1>6. ASSUME NEW i \in Jobs, Creating(i) \/ Deleting(i)
      PROVE  Tracked(j)'
    BY <1>1, <1>2, <1>6, HandlerTracks DEF Creating, Deleting
<1>7. CASE Exit \/ Crash \/ Restart
    BY <1>7 DEF Exit, Crash, ProcessGone, Restart, NothingFails
<1> QED BY <1>3, <1>4, <1>5, <1>6, <1>7 DEF Next

\* If no store call fails, every pending job of a process that has not been stopped
\* is scheduled or in somebody's hands, deletes or not, for any jobs and workers.
THEOREM PendingStaysTracked ==
    ASSUME NothingFails
    PROVE  Spec => []PendingIsTracked
<1>1. Init => PendingIsTracked
    BY DEF Init, StoreInit, PendingIsTracked, Stored
<1>2. TypeOK /\ PendingIsTracked /\ [Next]_vars => PendingIsTracked'
    BY TrackingNext
<1> QED BY <1>1, <1>2, TypeCorrect, PTL DEF Spec
=============================================================================
