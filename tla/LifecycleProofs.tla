-------------------------- MODULE LifecycleProofs --------------------------
(***************************************************************************)
(* TickHook implements JobLifecycle for every set of jobs and workers: the *)
(* initial states map to initial states, and every step to a step of the   *)
(* job it is about, or to none.  What the steps rely on is ExecutionInv,   *)
(* and that nobody but poll() takes a job of the batch off the schedule.   *)
(***************************************************************************)
EXTENDS LifecycleRefinement, ExecutionProofs

(* The batch and the schedule. *)

BatchScheduled ==
    \A j \in Jobs : InBatch(j) /\ Stored(j) => Scheduled(j) \/ InHand(j)

LEMMA BatchKept ==
    ASSUME BatchScheduled,
           \A j \in Jobs : InBatch(j)' => InBatch(j) /\ (InHand(j) => InHand(j)'),
           \A j \in Jobs : InBatch(j)' =>
                (Stored(j)' => Stored(j)) /\ (Stored(j)' /\ Scheduled(j) => Scheduled(j)')
    PROVE  BatchScheduled'
BY DEF BatchScheduled

LEMMA PollBatch ==
    ASSUME TypeOK, Ownership, BatchScheduled, PollRemove \/ PollDispatch
    PROVE  BatchScheduled'
<1>1. /\ batch \in Seq(Jobs) /\ batch # <<>>
      /\ schedule \in [Jobs -> Int \cup {Absent}]
    BY DEF PollRemove, PollDispatch, TypeOK, SchedulerTypeOK, StoreTypeOK
<1>2. PICK h \in Jobs : h = Head(batch)
    BY <1>1
<1>3. /\ jobs' = jobs
      /\ \A j \in Jobs \ {h} : schedule'[j] = schedule[j]
    BY <1>1, <1>2 DEF PollRemove, PollDispatch, RemoveFromSchedule, storeVars
<1>4. \A j \in Jobs \ {h} : ~InHand(j)
    BY <1>2 DEF InHand
<1>5. CASE batch' = Tail(batch)
    <2>1. \A j \in Jobs : InBatch(j)' => InBatch(j) /\ j # h
        BY <1>1, <1>2, <1>5, TailDistinct DEF InBatch, Ownership
    <2> QED BY <1>3, <1>4, <2>1 DEF BatchScheduled, Stored, Scheduled
<1>6. CASE batch' = batch /\ schedPc' = "dispatch"
    <2>1. InHand(h)'
        BY <1>2, <1>6 DEF InHand
    <2>2. \A j \in Jobs : InBatch(j)' => InBatch(j)
        BY <1>6 DEF InBatch
    <2> QED BY <1>3, <1>4, <2>1, <2>2 DEF BatchScheduled, Stored, Scheduled
<1> QED BY <1>5, <1>6 DEF PollRemove, PollDispatch, NextInBatch

LEMMA BatchNext ==
    ASSUME TypeOK, Ownership, BatchScheduled, [Next]_vars
    PROVE  BatchScheduled'
<1>1. CASE Tick \/ Signal \/ StopExecutor \/ Restart \/ UNCHANGED vars
    <2>1. UNCHANGED <<storeVars, schedVars>>
        BY <1>1 DEF Tick, Signal, StopExecutor, Restart, vars
    <2> QED BY <2>1 DEF BatchScheduled, InBatch, InHand, Stored, Scheduled, storeVars, schedVars
<1>2. CASE Scheduling
    <2>1. CASE PollStart \/ SchedulerExit
        BY <2>1 DEF PollStart, SchedulerExit, BatchScheduled, InBatch, InHand, Stored,
                    Scheduled, storeVars
    <2>2. CASE PollFetch
        <3>1. /\ UNCHANGED <<jobs, schedule>>
              /\ \A i \in 1 .. Len(batch') : Scheduled(batch'[i])
            BY <2>2, GetDueJobsResult DEF PollFetch, storeVars
        <3> QED BY <3>1 DEF BatchScheduled, InBatch, Scheduled
    <2> QED BY <1>2, <2>1, <2>2, PollBatch DEF Scheduling, SchedulerStep
<1>3. ASSUME NEW w \in Workers, Working(w)
      PROVE  BatchScheduled'
    <2>1. CASE WorkerTake(w) \/ WorkerExit(w)
        BY <1>3, <2>1
           DEF Working, WorkerTake, WorkerExit, BatchScheduled, InBatch, InHand, Stored,
               Scheduled, storeVars, schedVars
    <2>2. CASE ~(WorkerTake(w) \/ WorkerExit(w))
        <3>1. Busy(w) /\ OnlyTouches(w)
            BY <1>3, <2>2, WorkerTouches DEF Working, WorkerStep
        <3>2. PICK own \in Jobs : own = workerJob[w]
            BY <3>1 DEF TypeOK, ExecutorTypeOK
        <3>3. ~InBatch(own)
            BY <3>1, <3>2 DEF Ownership, Held
        <3>4. UNCHANGED <<batch, schedPc>>
            BY <1>3 DEF Working, schedVars
        <3>5. \A j \in Jobs : InBatch(j)' => InBatch(j) /\ j # own
            BY <3>3, <3>4 DEF InBatch
        <3> QED BY <3>1, <3>2, <3>4, <3>5, BatchKept DEF OnlyTouches, InHand, Stored, Scheduled
    <2> QED BY <2>1, <2>2
<1>4. ASSUME NEW j \in Jobs, Creating(j) \/ Deleting(j)
      PROVE  BatchScheduled'
    <2>1. UNCHANGED <<batch, schedPc>>
        BY <1>4 DEF Creating, Deleting, schedVars
    <2>2. CASE Creating(j)
        <3>1. ~InBatch(j)
            BY <2>2 DEF Creating, HandleCreate, Ownership
        <3>2. \A i \in Jobs \ {j} : jobs'[i] = jobs[i] /\ schedule'[i] = schedule[i]
            BY <2>2 DEF Creating, HandleCreate, CreateJob, TypeOK, StoreTypeOK, storeVars
        <3>3. \A i \in Jobs : InBatch(i)' => InBatch(i) /\ i # j
            BY <2>1, <3>1 DEF InBatch
        <3> QED BY <2>1, <3>2, <3>3, BatchKept DEF InHand, Stored, Scheduled
    <2>3. CASE Deleting(j)
        <3>1. \A i \in Jobs : (Stored(i)' => Stored(i)) /\ (Stored(i)' /\ Scheduled(i) => Scheduled(i)')
            BY <2>3 DEF Deleting, HandleDeleteLookup, HandleDelete, DeleteJob, Stored,
                        Scheduled, TypeOK, StoreTypeOK, storeVars
        <3> QED BY <2>1, <3>1, BatchKept DEF InBatch, InHand
    <2> QED BY <1>4, <2>2, <2>3
<1>5. CASE Exit \/ Crash
    BY <1>5 DEF Exit, Crash, ProcessGone, SchedulerFresh, BatchScheduled, InBatch
<1> QED BY <1>1, <1>2, <1>3, <1>4, <1>5 DEF Next

-----------------------------------------------------------------------------

(* The phase of a job. *)

LifeIs(j) ==
    /\ j \notin issued => Life(j) = At("unknown", 0)
    /\ \A w \in Workers :
            HasRecord(w) /\ workerJob[w] = j => Life(j) = ExecutedLife(j, w)
    /\ j \in issued /\ ~Executing(j) =>
            Life(j) = IF Stored(j) /\ Scheduled(j) THEN At("scheduled", schedule[j])
                      ELSE IF Stored(j) /\ Claimed(j) THEN At("claimed", jobs[j].due)
                      ELSE Over

Lives == \A j \in Jobs : LifeIs(j)

LEMMA LivesHold == Ownership => Lives
<1> SUFFICES ASSUME Ownership, NEW j \in Jobs
             PROVE  LifeIs(j)
    BY DEF Lives
<1>1. j \notin issued => Life(j) = At("unknown", 0)
    BY DEF Life, Executing, Ownership, HasRecord, Busy, Held
<1>2. ASSUME NEW w \in Workers, HasRecord(w), workerJob[w] = j
      PROVE  Life(j) = ExecutedLife(j, w)
    <2>1. HasRecord(HolderOf(j)) /\ workerJob[HolderOf(j)] = j /\ HolderOf(j) \in Workers
        BY <1>2 DEF HolderOf
    <2>2. HolderOf(j) = w
        BY <1>2, <2>1 DEF Ownership, HasRecord, Busy
    <2>3. j \in issued
        BY <1>2 DEF Ownership, HasRecord, Busy, Held
    <2> QED BY <1>2, <2>2, <2>3 DEF Life, Executing
<1>3. j \in issued /\ ~Executing(j) =>
            Life(j) = IF Stored(j) /\ Scheduled(j) THEN At("scheduled", schedule[j])
                      ELSE IF Stored(j) /\ Claimed(j) THEN At("claimed", jobs[j].due)
                      ELSE Over
    BY DEF Life
<1> QED BY <1>1, <1>2, <1>3 DEF LifeIs

LEMMA LivesHoldNext == Ownership' => Lives'
BY LivesHold, PTL

-----------------------------------------------------------------------------

(* What a step of TickHook is to a job's lifecycle. *)

Implements == [Lifecycle!Next]_<<now, [j \in Jobs |-> Life(j)], tries>>

LEMMA NothingMoves ==
    ASSUME UNCHANGED <<now, tries>>, \A j \in Jobs : Life(j)' = Life(j)
    PROVE  Implements
BY DEF Implements

LEMMA OneMoves ==
    ASSUME NEW j \in Jobs, NEW to, Life(j)' = to,
           \A i \in Jobs \ {j} : Life(i)' = Life(i)
    PROVE  Lifecycle!Moves(j, to)
BY DEF Lifecycle!Moves

\* A job is over that was on its way before.
LEMMA OneEnds ==
    ASSUME NEW j \in Jobs, Life(j)' = Over,
           Life(j) = Over \/ Life(j).phase \in {"scheduled", "claimed", "firing", "settling"},
           UNCHANGED <<now, tries>>,
           \A i \in Jobs \ {j} : Life(i)' = Life(i)
    PROVE  Implements
<1>1. CASE Life(j) = Over
    BY <1>1, NothingMoves
<1>2. CASE Life(j).phase \in {"scheduled", "claimed", "firing", "settling"}
    <2>1. Lifecycle!Lose({j})
        BY <1>2 DEF Lifecycle!Lose, Over, At, Lifecycle!Over, Lifecycle!At
    <2> QED BY <2>1 DEF Implements, Lifecycle!Next
<1> QED BY <1>1, <1>2

\* A job whose place nobody touches.
LEMMA LifeKept ==
    ASSUME Lives, Lives', NEW j \in Jobs,
           jobs'[j] = jobs[j],
           Scheduled(j)' <=> Scheduled(j), Scheduled(j) => schedule'[j] = schedule[j],
           j \in issued' <=> j \in issued,
           Claimed(j)' <=> Claimed(j),
           \A w \in Workers : HasRecord(w) /\ workerJob[w] = j =>
                /\ workerPc'[w] = workerPc[w]
                /\ workerJob'[w] = workerJob[w]
                /\ workerRec'[w] = workerRec[w],
           \A w \in Workers : HasRecord(w)' /\ workerJob'[w] = j =>
                HasRecord(w) /\ workerJob[w] = j
    PROVE  Life(j)' = Life(j)
<1>1. LifeIs(j) /\ LifeIs(j)'
    BY DEF Lives
<1>2. CASE j \notin issued
    BY <1>1, <1>2 DEF LifeIs, At
<1>3. ASSUME NEW w \in Workers, HasRecord(w), workerJob[w] = j
      PROVE  Life(j)' = Life(j)
    <2>1. HasRecord(w)' /\ workerJob'[w] = j
        BY <1>3 DEF HasRecord
    <2>2. Life(j) = ExecutedLife(j, w)
        BY <1>1, <1>3 DEF LifeIs
    <2>3. Life(j)' = ExecutedLife(j, w)'
        BY <1>1, <2>1 DEF LifeIs
    <2>4. ExecutedLife(j, w)' = ExecutedLife(j, w)
        BY <1>3 DEF ExecutedLife, At, Over, Stored
    <2> QED BY <2>2, <2>3, <2>4
<1>4. CASE j \in issued /\ ~Executing(j)
    <2>1. ~Executing(j)' /\ j \in issued'
        BY <1>4 DEF Executing
    <2> QED BY <1>1, <1>4, <2>1 DEF LifeIs, At, Over, Stored
<1> QED BY <1>2, <1>3, <1>4 DEF Executing

(* The steps of a worker past "load": where its own job goes is all that matters. *)

LEMMA OthersKept ==
    ASSUME TypeOK, Ownership, Lives, Lives', NEW w \in Workers, Busy(w), OnlyTouches(w),
           NEW own \in Jobs, own = workerJob[w], Busy(w)' => workerJob'[w] = own,
           UNCHANGED <<schedVars, apiVars>>
    PROVE  \A j \in Jobs \ {own} : Life(j)' = Life(j)
<1> SUFFICES ASSUME NEW j \in Jobs \ {own}
             PROVE  Life(j)' = Life(j)
    OBVIOUS
<1>1. /\ jobs'[j] = jobs[j] /\ schedule'[j] = schedule[j]
      /\ Queued(j)' <=> Queued(j)
      /\ InHand(j)' <=> InHand(j)
    BY DEF OnlyTouches, Queued, InHand, schedVars
<1>2. \A v \in Workers : Busy(v)' /\ workerJob'[v] = j => v # w /\ Busy(v) /\ workerJob[v] = j
    BY DEF OnlyTouches, Busy
<1>3. \A v \in Workers : Busy(v) /\ workerJob[v] = j =>
            /\ v # w /\ Busy(v)'
            /\ workerPc'[v] = workerPc[v]
            /\ workerJob'[v] = workerJob[v]
            /\ workerRec'[v] = workerRec[v]
    BY DEF OnlyTouches, Busy
<1>4. Held(j)' <=> Held(j)
    BY <1>2, <1>3 DEF Held
<1>5. Claimed(j)' <=> Claimed(j)
    BY <1>1, <1>4 DEF Claimed
<1>6. ASSUME NEW v \in Workers, HasRecord(v)', workerJob'[v] = j
      PROVE  HasRecord(v) /\ workerJob[v] = j
    <2>1. Busy(v) /\ workerJob[v] = j
        BY <1>2, <1>6 DEF HasRecord, Busy
    <2>2. workerPc'[v] = workerPc[v]
        BY <1>3, <2>1 DEF Busy
    <2> QED BY <1>6, <2>1, <2>2 DEF HasRecord
<1>7. ASSUME NEW v \in Workers, HasRecord(v), workerJob[v] = j
      PROVE  /\ workerPc'[v] = workerPc[v]
             /\ workerJob'[v] = workerJob[v]
             /\ workerRec'[v] = workerRec[v]
    BY <1>3, <1>7 DEF HasRecord, Busy
<1>8. /\ Scheduled(j)' <=> Scheduled(j)
      /\ j \in issued' <=> j \in issued
    BY <1>1 DEF Scheduled, apiVars
<1> QED BY <1>1, <1>5, <1>6, <1>7, <1>8, LifeKept

\* A worker lets go of its job: whether it is over depends on the store.
LEMMA LetGo ==
    ASSUME TypeOK, Ownership, Lives', NEW w \in Workers, Busy(w), OnlyTouches(w),
           NEW own \in Jobs, own = workerJob[w], workerPc'[w] = "idle",
           UNCHANGED <<schedVars, apiVars>>
    PROVE  Life(own)' = IF Stored(own)' /\ Scheduled(own)'
                        THEN At("scheduled", schedule'[own]) ELSE Over
<1>1. own \in issued /\ ~Waiting(own)'
    BY HeldAlone
<1>2. \A v \in Workers : ~(Busy(v)' /\ workerJob'[v] = own)
    <2>1. \A v \in Workers \ {w} : Busy(v) => workerJob[v] # own
        BY HeldAlone
    <2> QED BY <2>1 DEF OnlyTouches, Busy
<1>3. ~InHand(own)
    <2>1. ~InBatch(own)
        BY DEF Ownership, Held
    <2> QED BY <2>1 DEF InHand, InBatch, TypeOK, SchedulerTypeOK
<1>4. ~Claimed(own)' /\ ~Executing(own)'
    <2>1. ~InHand(own)'
        BY <1>3 DEF InHand, schedVars
    <2> QED BY <1>1, <1>2, <2>1 DEF Claimed, Waiting, Held, Executing, HasRecord, Busy
<1> QED BY <1>1, <1>4 DEF Lives, LifeIs, Over, At, apiVars

\* How a worker past "load" moves the job it has.
LEMMA OwnMoves ==
    ASSUME TypeOK, Ownership, ExecutionInv, Lives, Lives', NEW w \in Workers,
           UNCHANGED <<now, schedVars, apiVars>>,
           \/ WorkerLoad(w) \/ WorkerAbandon(w) \/ WorkerFire(w) \/ WorkerSucceeds(w)
           \/ WorkerRefused(w) \/ WorkerFails(w) \/ WorkerDelete(w) \/ WorkerUpdate(w)
           \/ WorkerReschedule(w),
           NEW own \in Jobs, own = workerJob[w]
    PROVE  /\ own \in issued /\ ~Scheduled(own) /\ WorkerInv(w) /\ Busy(w)
           /\ \A j \in Jobs \ {own} : Life(j)' = Life(j)
           /\ HasRecord(w) => Life(own) = ExecutedLife(own, w)
           /\ \/ /\ workerPc'[w] = "idle"
                 /\ Life(own)' = IF Stored(own)' /\ Scheduled(own)'
                                 THEN At("scheduled", schedule'[own]) ELSE Over
              \/ /\ workerPc'[w] \in {"domain", "inflight", "delete", "update", "reschedule"}
                 /\ workerJob'[w] = own
                 /\ Life(own)' = ExecutedLife(own, w)'
<1>1. Busy(w) /\ OnlyTouches(w)
    BY WorkerTouches
<1>2. \/ workerPc'[w] = "idle"
      \/ /\ workerPc'[w] \in {"domain", "inflight", "delete", "update", "reschedule"}
         /\ workerJob'[w] = own
    BY DEF WorkerLoad, WorkerAbandon, WorkerFire, WorkerSucceeds, WorkerRefused, WorkerFails,
           WorkerDelete, WorkerUpdate, WorkerReschedule, Release, Goto, TypeOK, ExecutorTypeOK
<1>3. own \in issued /\ ~Scheduled(own) /\ WorkerInv(w)
    BY <1>1, HeldAlone DEF ExecutionInv
<1>4. \A j \in Jobs \ {own} : Life(j)' = Life(j)
    BY <1>1, <1>2, OthersKept DEF Busy
<1>5. HasRecord(w) => Life(own) = ExecutedLife(own, w)
    BY DEF Lives, LifeIs
<1>6. CASE workerPc'[w] = "idle"
    BY <1>1, <1>3, <1>4, <1>5, <1>6, LetGo
<1>7. CASE /\ workerPc'[w] \in {"domain", "inflight", "delete", "update", "reschedule"}
           /\ workerJob'[w] = own
    <2>1. Life(own)' = ExecutedLife(own, w)'
        BY <1>7 DEF Lives, LifeIs, HasRecord
    <2> QED BY <1>1, <1>3, <1>4, <1>5, <1>7, <2>1
<1> QED BY <1>2, <1>6, <1>7

LEMMA LoadImplements ==
    ASSUME TypeOK, Ownership, ExecutionInv, Lives, Lives', NEW w \in Workers,
           UNCHANGED <<now, schedVars, apiVars>>, WorkerLoad(w) \/ WorkerAbandon(w)
    PROVE  Implements
<1>1. PICK own \in Jobs : own = workerJob[w]
    BY DEF WorkerLoad, WorkerAbandon, TypeOK, ExecutorTypeOK, Busy
<1>2. /\ own \in issued /\ ~Scheduled(own)
      /\ \A j \in Jobs \ {own} : Life(j)' = Life(j)
      /\ HasRecord(w) => Life(own) = ExecutedLife(own, w)
      /\ workerPc'[w] = "idle" => Life(own)' = IF Stored(own)' /\ Scheduled(own)'
                                 THEN At("scheduled", schedule'[own]) ELSE Over
      /\ workerPc'[w] = "domain" => Life(own)' = ExecutedLife(own, w)'
    BY <1>1, OwnMoves
<1>3. UNCHANGED <<jobs, schedule, now, tries>>
    BY DEF WorkerLoad, WorkerAbandon, storeVars, historyVars
<1>4. CASE WorkerLoad(w)
    <2>1. Held(own) /\ ~Executing(own) /\ workerPc[w] = "load"
        BY <1>1, <1>4 DEF WorkerLoad, Held, Executing, Ownership, HasRecord, Busy
    <2>2. Life(own) = IF Stored(own) THEN At("claimed", jobs[own].due) ELSE Over
        BY <1>2, <2>1 DEF Lives, LifeIs, Claimed
    <2>3. CASE workerPc'[w] = "idle"
        <3>1. Life(own)' = Over
            BY <1>2, <1>3, <2>3 DEF Scheduled
        <3>2. Life(own) = Over \/ Life(own).phase = "claimed"
            BY <2>2 DEF At
        <3> QED BY <1>2, <1>3, <3>1, <3>2, OneEnds
    <2>4. CASE workerPc'[w] # "idle"
        <3>1. workerPc'[w] = "domain" /\ Stored(own) /\ workerRec'[w] = jobs[own]
            BY <1>1, <1>4, <2>4 DEF WorkerLoad, Release, Goto, TypeOK, ExecutorTypeOK
        <3>2. ExecutedLife(own, w)' = At("claimed", jobs[own].due)
            BY <3>1 DEF ExecutedLife, At
        <3>3. Life(own)' = Life(own)
            BY <1>2, <2>2, <3>1, <3>2
        <3> QED BY <1>2, <1>3, <3>3, NothingMoves
    <2> QED BY <2>3, <2>4
<1>5. CASE WorkerAbandon(w)
    <2>1. workerPc[w] = "domain" /\ workerPc'[w] = "idle"
        BY <1>5 DEF WorkerAbandon, Release, TypeOK, ExecutorTypeOK
    <2>2. Life(own) = At("claimed", workerRec[w].due)
        BY <1>2, <2>1 DEF HasRecord, ExecutedLife
    <2>3. Life(own).phase = "claimed"
        BY <2>2 DEF At
    <2>4. Life(own)' = Over
        BY <1>2, <1>3, <2>1 DEF Scheduled
    <2> QED BY <1>2, <1>3, <2>3, <2>4, OneEnds
<1> QED BY <1>4, <1>5

LEMMA FireImplements ==
    ASSUME TypeOK, Ownership, ExecutionInv, Lives, Lives', NEW w \in Workers,
           UNCHANGED <<now, schedVars, apiVars>>, WorkerFire(w)
    PROVE  Implements
<1>1. PICK own \in Jobs : own = workerJob[w]
    BY DEF WorkerFire, TypeOK, ExecutorTypeOK, Busy
<1>2. /\ workerPc[w] = "domain" /\ workerPc'[w] = "inflight" /\ workerRec' = workerRec
      /\ now' = now /\ tries' = [tries EXCEPT ![own] = @ + 1]
    BY <1>1 DEF WorkerFire, Goto, TypeOK, ExecutorTypeOK
<1>3. /\ WorkerInv(w)
      /\ \A j \in Jobs \ {own} : Life(j)' = Life(j)
      /\ Life(own) = ExecutedLife(own, w)
      /\ Life(own)' = ExecutedLife(own, w)'
    BY <1>1, <1>2, OwnMoves DEF HasRecord
<1>4. Life(own) = At("claimed", workerRec[w].due)
    BY <1>2, <1>3 DEF ExecutedLife
<1>5. Life(own)' = Lifecycle!At("firing", workerRec[w].due)
    BY <1>2, <1>3 DEF ExecutedLife, At, Lifecycle!At
<1>6. tries[own] < Request[own].maxAttempts
    BY <1>1, <1>2, <1>3 DEF WorkerInv, Runnable
<1>7. Lifecycle!Fire(own)
    BY <1>2, <1>3, <1>4, <1>5, <1>6, OneMoves DEF Lifecycle!Fire, Lifecycle!InPhase, At
<1> QED BY <1>7 DEF Implements, Lifecycle!Next

LEMMA SucceedsImplements ==
    ASSUME TypeOK, Ownership, ExecutionInv, Lives, Lives', NEW w \in Workers,
           UNCHANGED <<now, schedVars, apiVars>>, WorkerSucceeds(w)
    PROVE  Implements
<1>1. PICK own \in Jobs : own = workerJob[w]
    BY DEF WorkerSucceeds, TypeOK, ExecutorTypeOK, Busy
<1>2. /\ workerPc[w] = "inflight" /\ workerPc'[w] \in {"delete", "update"}
      /\ now' = now /\ tries' = [tries EXCEPT ![own] = 0]
      /\ workerRec[w] \in JobRecord
    BY <1>1 DEF WorkerSucceeds, Goto, TypeOK, ExecutorTypeOK, HasRecord
<1>3. /\ \A j \in Jobs \ {own} : Life(j)' = Life(j)
      /\ Life(own) = ExecutedLife(own, w)
      /\ Life(own)' = ExecutedLife(own, w)'
    BY <1>1, <1>2, OwnMoves DEF HasRecord
<1>4. Life(own) = At("firing", workerRec[w].due)
    BY <1>2, <1>3 DEF ExecutedLife
<1>5. CASE Request[own].type = "one_shot"
    <2>1. workerPc'[w] = "delete"
        BY <1>1, <1>5 DEF WorkerSucceeds, Goto, TypeOK, ExecutorTypeOK
    <2>2. Life(own)' = Lifecycle!Over
        BY <1>3, <2>1 DEF ExecutedLife, Over, At, Lifecycle!Over, Lifecycle!At
    <2>3. Lifecycle!Succeed(own)
        BY <1>2, <1>3, <1>4, <1>5, <2>2, OneMoves DEF Lifecycle!Succeed, Lifecycle!InPhase, At
    <2> QED BY <2>3 DEF Implements, Lifecycle!Next
<1>6. CASE Request[own].type # "one_shot"
    <2>1. workerPc'[w] = "update" /\ workerRec'[w] = AfterSuccess(own, workerRec[w])
        BY <1>1, <1>6 DEF WorkerSucceeds, Goto, TypeOK, ExecutorTypeOK
    <2>2. /\ AfterSuccess(own, workerRec[w]).status = "pending"
          /\ AfterSuccess(own, workerRec[w]).due = workerRec[w].due + Request[own].intervalMs
        BY <1>2 DEF AfterSuccess, JobRecord
    <2>3. Life(own)' = Lifecycle!At("settling", workerRec[w].due + Request[own].intervalMs)
        BY <1>3, <2>1, <2>2 DEF ExecutedLife, At, Lifecycle!At
    <2>4. Lifecycle!Moves(own, Lifecycle!At("settling", Life(own).due + Request[own].intervalMs))
        BY <1>3, <1>4, <2>3, OneMoves DEF At
    <2>5. Lifecycle!Succeed(own)
        BY <1>2, <1>4, <1>6, <2>4 DEF Lifecycle!Succeed, Lifecycle!InPhase, At
    <2> QED BY <2>5 DEF Implements, Lifecycle!Next
<1> QED BY <1>5, <1>6

LEMMA RefusedImplements ==
    ASSUME TypeOK, Ownership, ExecutionInv, Lives, Lives', NEW w \in Workers,
           UNCHANGED <<now, schedVars, apiVars>>, WorkerRefused(w)
    PROVE  Implements
<1>1. PICK own \in Jobs : own = workerJob[w]
    BY DEF WorkerRefused, TypeOK, ExecutorTypeOK, Busy
<1>2. /\ workerPc[w] = "inflight" /\ workerPc'[w] = "update" /\ workerRec[w] \in JobRecord
      /\ UNCHANGED <<now, tries>>
      /\ workerRec'[w] = AfterClientError(own, workerRec[w])
    BY <1>1 DEF WorkerRefused, Goto, TypeOK, ExecutorTypeOK, HasRecord, historyVars
<1>3. /\ \A j \in Jobs \ {own} : Life(j)' = Life(j)
      /\ Life(own) = ExecutedLife(own, w)
      /\ Life(own)' = ExecutedLife(own, w)'
    BY <1>1, <1>2, OwnMoves DEF HasRecord
<1>4. Life(own).phase = "firing"
    BY <1>2, <1>3 DEF ExecutedLife, At
<1>5. workerRec'[w].status = "failed"
    BY <1>2 DEF AfterClientError, JobRecord
<1>6. Life(own)' = Lifecycle!Over
    BY <1>2, <1>3, <1>5 DEF ExecutedLife, Over, At, Lifecycle!Over, Lifecycle!At
<1>7. Lifecycle!Refuse(own)
    BY <1>2, <1>3, <1>4, <1>6, OneMoves DEF Lifecycle!Refuse, Lifecycle!InPhase
<1> QED BY <1>7 DEF Implements, Lifecycle!Next

LEMMA SameBackoff ==
    ASSUME NEW attempt, NEW base
    PROVE  Lifecycle!CalculateBackoff(attempt, base) = CalculateBackoff(attempt, base)
BY DEF Lifecycle!CalculateBackoff, CalculateBackoff

LEMMA FailsImplements ==
    ASSUME TypeOK, Ownership, ExecutionInv, Lives, Lives', NEW w \in Workers,
           UNCHANGED <<now, schedVars, apiVars>>, WorkerFails(w)
    PROVE  Implements
<1>1. PICK own \in Jobs : own = workerJob[w]
    BY DEF WorkerFails, TypeOK, ExecutorTypeOK, Busy
<1>2. /\ workerPc[w] = "inflight" /\ workerPc'[w] = "update" /\ workerRec[w] \in JobRecord
      /\ UNCHANGED <<now, tries>>
      /\ workerRec'[w] \in AfterFailure(own, workerRec[w], now)
    BY <1>1 DEF WorkerFails, Goto, TypeOK, ExecutorTypeOK, HasRecord, historyVars
<1>3. /\ \A j \in Jobs \ {own} : Life(j)' = Life(j)
      /\ Life(own) = ExecutedLife(own, w)
      /\ Life(own)' = ExecutedLife(own, w)'
      /\ WorkerInv(w)
    BY <1>1, <1>2, OwnMoves DEF HasRecord
<1>4. Life(own).phase = "firing"
    BY <1>2, <1>3 DEF ExecutedLife, At
<1>5. PICK n \in Nat : n = workerRec[w].attempt + 1
    BY <1>2 DEF JobRecord
<1>6. n = tries[own] /\ workerRec[w].status = "pending" /\ Request[own].maxAttempts \in Nat
    BY <1>1, <1>2, <1>3, <1>5, RequestAssumption DEF WorkerInv, ValidRequest
<1>7. PICK failed \in JobRecord :
        /\ failed = [workerRec[w] EXCEPT !.attempt = @ + 1, !.lastError = "error"]
        /\ failed.attempt = n /\ failed.status = "pending"
    <2>1. [workerRec[w] EXCEPT !.attempt = n, !.lastError = "error"] \in JobRecord
        BY <1>2 DEF JobRecord
    <2>2. /\ [workerRec[w] EXCEPT !.attempt = n, !.lastError = "error"].attempt = n
          /\ [workerRec[w] EXCEPT !.attempt = n, !.lastError = "error"].status = "pending"
        BY <1>2, <1>6 DEF JobRecord
    <2> QED BY <1>5, <2>1, <2>2
<1>8. CASE n >= Request[own].maxAttempts
    <2>1. workerRec'[w] = [failed EXCEPT !.status = "failed"]
        BY <1>2, <1>7, <1>8 DEF AfterFailure
    <2>2. workerRec'[w].status = "failed"
        BY <2>1 DEF JobRecord
    <2>3. Life(own)' = Lifecycle!Over
        BY <1>2, <1>3, <2>2 DEF ExecutedLife, Over, At, Lifecycle!Over, Lifecycle!At
    <2>4. ~(tries[own] < Request[own].maxAttempts)
        BY <1>6, <1>8
    <2>5. Lifecycle!Fail(own)
        BY <1>2, <1>3, <1>4, <2>3, <2>4, OneMoves DEF Lifecycle!Fail, Lifecycle!InPhase
    <2> QED BY <2>5 DEF Implements, Lifecycle!Next
<1>9. CASE ~(n >= Request[own].maxAttempts)
    <2>1. PICK d \in CalculateBackoff(n, Request[own].backoffBaseMs) :
            workerRec'[w] = [failed EXCEPT !.due = now + d]
        BY <1>2, <1>7, <1>9 DEF AfterFailure
    <2>2. workerRec'[w].status = "pending" /\ workerRec'[w].due = now + d
        BY <1>7, <2>1 DEF JobRecord
    <2>3. Life(own)' = Lifecycle!At("settling", now + d)
        BY <1>2, <1>3, <2>2 DEF ExecutedLife, At, Lifecycle!At
    <2>4. tries[own] < Request[own].maxAttempts
        BY <1>6, <1>9
    <2>5. d \in Lifecycle!CalculateBackoff(tries[own], Request[own].backoffBaseMs)
        BY <1>6, <2>1, SameBackoff
    <2>6. Lifecycle!Moves(own, Lifecycle!At("settling", now + d))
        BY <1>3, <2>3, OneMoves
    <2>7. Lifecycle!Fail(own)
        BY <1>2, <1>4, <2>4, <2>5, <2>6 DEF Lifecycle!Fail, Lifecycle!InPhase
    <2> QED BY <2>7 DEF Implements, Lifecycle!Next
<1> QED BY <1>8, <1>9

LEMMA DeleteImplements ==
    ASSUME TypeOK, Ownership, ExecutionInv, Lives, Lives', NEW w \in Workers,
           UNCHANGED <<now, schedVars, apiVars>>, WorkerDelete(w)
    PROVE  Implements
<1>1. PICK own \in Jobs : own = workerJob[w]
    BY DEF WorkerDelete, TypeOK, ExecutorTypeOK, Busy
<1>2. /\ workerPc[w] = "delete" /\ workerPc'[w] = "idle"
      /\ UNCHANGED <<now, tries>>
    BY DEF WorkerDelete, Release, TypeOK, ExecutorTypeOK, historyVars
<1>3. /\ ~Scheduled(own)
      /\ \A j \in Jobs \ {own} : Life(j)' = Life(j)
      /\ Life(own) = ExecutedLife(own, w)
      /\ Life(own)' = IF Stored(own)' /\ Scheduled(own)'
                      THEN At("scheduled", schedule'[own]) ELSE Over
    BY <1>1, <1>2, OwnMoves DEF HasRecord
<1>4. ~Scheduled(own)'
    BY <1>1, <1>3 DEF WorkerDelete, DeleteJob, Scheduled, storeVars, TypeOK, StoreTypeOK
<1>5. Life(own) = Over /\ Life(own)' = Over
    BY <1>2, <1>3, <1>4 DEF ExecutedLife
<1> QED BY <1>2, <1>3, <1>5, OneEnds

LEMMA UpdateImplements ==
    ASSUME TypeOK, Ownership, ExecutionInv, Lives, Lives', NEW w \in Workers,
           UNCHANGED <<now, schedVars, apiVars>>, WorkerUpdate(w)
    PROVE  Implements
<1>1. PICK own \in Jobs : own = workerJob[w]
    BY DEF WorkerUpdate, TypeOK, ExecutorTypeOK, Busy
<1>2. PICK outcome \in WriteOutcomes :
        /\ UpdateJob(own, workerRec[w], outcome)
        /\ \/ /\ Continues(outcome, workerRec[w]) /\ Goto(w, "reschedule")
              /\ UNCHANGED <<workerJob, workerRec>>
           \/ Release(w)
    BY <1>1 DEF WorkerUpdate
<1>3. /\ workerPc[w] = "update" /\ workerRec[w] \in JobRecord
      /\ UNCHANGED <<now, tries, schedule>>
    BY <1>2 DEF WorkerUpdate, UpdateJob, TypeOK, ExecutorTypeOK, HasRecord, historyVars
<1>4. /\ ~Scheduled(own)
      /\ \A j \in Jobs \ {own} : Life(j)' = Life(j)
      /\ Life(own) = ExecutedLife(own, w)
      /\ workerPc'[w] = "idle" => Life(own)' = IF Stored(own)' /\ Scheduled(own)'
                      THEN At("scheduled", schedule'[own]) ELSE Over
      /\ workerPc'[w] = "reschedule" => Life(own)' = ExecutedLife(own, w)'
    BY <1>1, <1>3, OwnMoves DEF HasRecord
<1>5. Life(own) = IF workerRec[w].status = "pending"
                  THEN At("settling", workerRec[w].due) ELSE Over
    BY <1>3, <1>4 DEF ExecutedLife
<1>6. CASE Release(w)
    <2>1. workerPc'[w] = "idle"
        BY <1>6 DEF Release, TypeOK, ExecutorTypeOK
    <2>2. Life(own)' = Over
        BY <1>3, <1>4, <2>1 DEF Scheduled
    <2>3. Life(own) = Over \/ Life(own).phase = "settling"
        BY <1>5 DEF At
    <2> QED BY <1>3, <1>4, <2>2, <2>3, OneEnds
<1>7. CASE ~Release(w)
    <2>1. /\ Continues(outcome, workerRec[w]) /\ workerPc'[w] = "reschedule"
          /\ workerRec' = workerRec
        BY <1>2, <1>7 DEF Goto, TypeOK, ExecutorTypeOK
    <2>2. Stored(own)'
        <3>1. jobs'[own] = HSet(jobs[own], workerRec[w])
            BY <1>2, <2>1 DEF UpdateJob, Continues, Written, TypeOK, StoreTypeOK
        <3>2. jobs'[own] \in JobRecord
            BY <1>3, <3>1, HSetType DEF TypeOK, StoreTypeOK
        <3> QED BY <3>2, AbsentAssumption DEF Stored
    <2>3. ExecutedLife(own, w)' = At("settling", workerRec[w].due)
        BY <2>1, <2>2 DEF ExecutedLife, At
    <2>4. Life(own)' = Life(own)
        BY <1>4, <1>5, <2>1, <2>3 DEF Continues
    <2> QED BY <1>3, <1>4, <2>4, NothingMoves
<1> QED BY <1>6, <1>7

LEMMA RescheduleImplements ==
    ASSUME TypeOK, Ownership, ExecutionInv, Lives, Lives', NEW w \in Workers,
           UNCHANGED <<now, schedVars, apiVars>>, WorkerReschedule(w)
    PROVE  Implements
<1>1. PICK own \in Jobs : own = workerJob[w]
    BY DEF WorkerReschedule, TypeOK, ExecutorTypeOK, Busy
<1>2. PICK outcome \in WriteOutcomes : AddToSchedule(own, workerRec[w].due, outcome)
    BY <1>1 DEF WorkerReschedule
<1>3. /\ workerPc[w] = "reschedule" /\ workerPc'[w] = "idle" /\ workerRec[w] \in JobRecord
      /\ UNCHANGED <<now, tries, jobs>>
    BY <1>2
       DEF WorkerReschedule, AddToSchedule, Release, TypeOK, ExecutorTypeOK, HasRecord,
           historyVars
<1>4. /\ ~Scheduled(own)
      /\ \A j \in Jobs \ {own} : Life(j)' = Life(j)
      /\ Life(own) = ExecutedLife(own, w)
      /\ Life(own)' = IF Stored(own)' /\ Scheduled(own)'
                      THEN At("scheduled", schedule'[own]) ELSE Over
    BY <1>1, <1>3, OwnMoves DEF HasRecord
<1>5. Life(own) = IF Stored(own) THEN At("settling", workerRec[w].due) ELSE Over
    BY <1>3, <1>4 DEF ExecutedLife
<1>6. CASE Stored(own) /\ Written(outcome)
    <2>1. schedule'[own] = workerRec[w].due /\ workerRec[w].due \in Int
        BY <1>2, <1>3, <1>6 DEF AddToSchedule, TypeOK, StoreTypeOK, JobRecord
    <2>2. Stored(own)' /\ Scheduled(own)'
        BY <1>3, <1>6, <2>1, AbsentAssumption DEF Stored, Scheduled
    <2>3. Life(own)' = Lifecycle!At("scheduled", workerRec[w].due)
        BY <1>4, <2>1, <2>2 DEF At, Lifecycle!At
    <2>4. Lifecycle!Moves(own, Lifecycle!At("scheduled", Life(own).due))
        BY <1>4, <1>5, <1>6, <2>3, OneMoves DEF At
    <2>5. Lifecycle!Reschedule(own)
        BY <1>3, <1>5, <1>6, <2>4 DEF Lifecycle!Reschedule, Lifecycle!InPhase, At
    <2> QED BY <2>5 DEF Implements, Lifecycle!Next
<1>7. CASE ~(Stored(own) /\ Written(outcome))
    <2>1. ~(Stored(own)' /\ Scheduled(own)')
        BY <1>2, <1>3, <1>4, <1>7 DEF AddToSchedule, Stored, Scheduled
    <2>2. Life(own) = Over \/ Life(own).phase = "settling"
        BY <1>5 DEF At
    <2> QED BY <1>3, <1>4, <2>1, <2>2, OneEnds
<1> QED BY <1>6, <1>7

LEMMA WorkerImplements ==
    ASSUME TypeOK, Ownership, ExecutionInv, Lives, Lives', NEW w \in Workers, WorkerStep(w),
           UNCHANGED <<now, schedVars, apiVars>>
    PROVE  Implements
<1>1. CASE WorkerTake(w) \/ WorkerExit(w)
    <2>1. UNCHANGED <<jobs, schedule, issued, now, tries>>
        BY <1>1 DEF WorkerTake, WorkerExit, storeVars, historyVars, apiVars
    <2>2. ASSUME NEW v \in Workers
          PROVE  /\ HasRecord(v)' <=> HasRecord(v)
                 /\ HasRecord(v) => /\ workerPc'[v] = workerPc[v]
                                    /\ workerJob'[v] = workerJob[v]
                                    /\ workerRec'[v] = workerRec[v]
        BY <1>1 DEF WorkerTake, WorkerExit, Goto, HasRecord, TypeOK, ExecutorTypeOK
    <2>3. ASSUME NEW j \in Jobs
          PROVE  Claimed(j)' <=> Claimed(j)
        <3>1. InHand(j)' <=> InHand(j)
            BY DEF InHand, schedVars
        <3>2. CASE WorkerExit(w)
            <4>1. (Queued(j)' <=> Queued(j)) /\ (Held(j)' <=> Held(j))
                BY <3>2 DEF WorkerExit, Goto, Queued, Held, Busy, TypeOK, ExecutorTypeOK
            <4> QED BY <3>1, <4>1 DEF Claimed
        <3>3. CASE WorkerTake(w)
            <4>1. PICK taken \in Jobs : taken = Head(queue)
                BY <3>3 DEF WorkerTake, TypeOK, ExecutorTypeOK
            <4>2. /\ workerPc[w] = "idle" /\ workerPc'[w] = "load" /\ workerJob'[w] = taken
                  /\ \A v \in Workers \ {w} :
                        workerPc'[v] = workerPc[v] /\ workerJob'[v] = workerJob[v]
                BY <3>3, <4>1 DEF WorkerTake, Goto, TypeOK, ExecutorTypeOK
            <4>3. Queued(j) <=> Queued(j)' \/ j = taken
                <5>1. /\ queue \in Seq(Jobs) /\ queue # <<>> /\ queue' = Tail(queue)
                    BY <3>3 DEF WorkerTake, TypeOK, ExecutorTypeOK
                <5>2. /\ Len(queue') = Len(queue) - 1 /\ Len(queue) \in Nat \ {0}
                      /\ \A i \in 1 .. Len(queue') : queue'[i] = queue[i + 1]
                      /\ taken = queue[1]
                    BY <4>1, <5>1
                <5>3. ASSUME NEW i \in 1 .. Len(queue), queue[i] = j, j # taken
                      PROVE  Queued(j)'
                    <6>1. i - 1 \in 1 .. Len(queue') /\ queue'[i - 1] = queue[(i - 1) + 1]
                        BY <5>2, <5>3
                    <6> QED BY <5>3, <6>1 DEF Queued
                <5>4. ASSUME NEW i \in 1 .. Len(queue'), queue'[i] = j
                      PROVE  Queued(j)
                    BY <5>2, <5>4 DEF Queued
                <5>5. Queued(taken)
                    BY <5>2 DEF Queued
                <5> QED BY <5>3, <5>4, <5>5 DEF Queued
            <4>4. Held(j)' <=> Held(j) \/ j = taken
                BY <4>2 DEF Held, Busy
            <4> QED BY <3>1, <4>3, <4>4 DEF Claimed
        <3> QED BY <1>1, <3>2, <3>3
    <2>4. ASSUME NEW j \in Jobs
          PROVE  Life(j)' = Life(j)
        BY <2>1, <2>2, <2>3, LifeKept DEF Scheduled
    <2> QED BY <2>1, <2>4, NothingMoves
<1> QED BY <1>1, LoadImplements, FireImplements, SucceedsImplements, RefusedImplements,
           FailsImplements, DeleteImplements, UpdateImplements, RescheduleImplements
        DEF WorkerStep

-----------------------------------------------------------------------------

(* The scheduler. *)

LEMMA RemoveImplements ==
    ASSUME TypeOK, Ownership, RecordInv, ExecutionInv, BatchScheduled, Lives, Lives',
           PollRemove, UNCHANGED <<now, mainPc, apiVars>>
    PROVE  Implements
<1>1. /\ batch \in Seq(Jobs) /\ batch # <<>> /\ schedPc = "remove"
      /\ schedule \in [Jobs -> Int \cup {Absent}]
    BY DEF PollRemove, TypeOK, SchedulerTypeOK, StoreTypeOK
<1>2. PICK h \in Jobs : h = Head(batch)
    BY <1>1
<1>3. PICK outcome \in WriteOutcomes :
        /\ RemoveFromSchedule(h, outcome)
        /\ \/ outcome = "ok" /\ schedPc' = "dispatch" /\ batch' = batch
           \/ outcome # "ok" /\ schedPc' # "dispatch"
    BY <1>2 DEF PollRemove, NextInBatch
<1>4. /\ UNCHANGED <<now, tries, jobs, issued>>
      /\ \A j \in Jobs \ {h} : schedule'[j] = schedule[j]
      /\ schedule'[h] = IF Written(outcome) THEN Absent ELSE schedule[h]
    BY <1>1, <1>3 DEF PollRemove, RemoveFromSchedule, execVars, historyVars, apiVars
<1>5. /\ UNCHANGED <<queue, workerPc, workerJob, workerRec>>
      /\ \A j \in Jobs : /\ Queued(j)' <=> Queued(j)
                         /\ Held(j)' <=> Held(j)
                         /\ Executing(j)' <=> Executing(j)
    BY DEF PollRemove, execVars, Queued, Held, Busy, Executing, HasRecord
<1>6. /\ \A j \in Jobs : ~InHand(j)
      /\ \A j \in Jobs : InHand(j)' <=> (outcome = "ok" /\ j = h)
    BY <1>1, <1>2, <1>3 DEF InHand
<1>7. ASSUME NEW j \in Jobs \ {h}
      PROVE  Life(j)' = Life(j)
    <2>1. Claimed(j)' <=> Claimed(j)
        BY <1>5, <1>6 DEF Claimed
    <2>2. \A v \in Workers : HasRecord(v)' <=> HasRecord(v)
        BY <1>5 DEF HasRecord
    <2> QED BY <1>4, <1>5, <2>1, <2>2, LifeKept DEF Scheduled
<1>8. /\ InBatch(h) /\ h \in issued /\ ~Queued(h) /\ ~Held(h) /\ ~Executing(h)
    <2>1. InBatch(h)
        BY <1>1, <1>2 DEF InBatch
    <2>2. h \in issued /\ ~Queued(h) /\ ~Held(h)
        BY <2>1 DEF Ownership
    <2> QED BY <2>1, <2>2 DEF Held, Executing, HasRecord, Busy
<1>9. Stored(h) => Scheduled(h)
    BY <1>6, <1>8 DEF BatchScheduled
<1>10. Life(h) = IF Stored(h) THEN At("scheduled", schedule[h]) ELSE Over
    BY <1>8, <1>9 DEF Lives, LifeIs, Claimed
<1>11. Life(h)' = IF Stored(h)
                  THEN IF Written(outcome)
                       THEN IF outcome = "ok" THEN At("claimed", jobs[h].due) ELSE Over
                       ELSE Life(h)
                  ELSE Over
    <2>1. ~Executing(h)' /\ h \in issued' /\ (Claimed(h)' <=> outcome = "ok")
        BY <1>4, <1>5, <1>6, <1>8 DEF Claimed
    <2>2. /\ Stored(h)' <=> Stored(h)
          /\ Scheduled(h)' <=> (Scheduled(h) /\ ~Written(outcome))
        BY <1>4 DEF Stored, Scheduled
    <2>3. Life(h)' = IF Stored(h)' /\ Scheduled(h)' THEN At("scheduled", schedule'[h])
                     ELSE IF Stored(h)' /\ Claimed(h)' THEN At("claimed", jobs'[h].due)
                     ELSE Over
        BY <2>1 DEF Lives, LifeIs, At, Over
    <2>4. outcome = "ok" => Written(outcome)
        BY DEF Written
    <2> QED BY <1>4, <1>9, <1>10, <2>1, <2>2, <2>3, <2>4
<1>12. CASE Stored(h) /\ outcome = "ok"
    <2>1. Life(h)' = Lifecycle!At("claimed", schedule[h])
        BY <1>9, <1>11, <1>12 DEF Written, At, Lifecycle!At, RecordInv, ScheduleMatchesRecord
    <2>2. schedule[h] <= now
        BY <1>8, <1>9, <1>12
           DEF ExecutionInv, JobInv, Waiting, RecordInv, ScheduleMatchesRecord
    <2>3. Lifecycle!Moves(h, Lifecycle!At("claimed", Life(h).due))
        BY <1>7, <1>10, <1>12, <2>1, OneMoves DEF At
    <2>4. Lifecycle!Claim(h)
        BY <1>4, <1>10, <1>12, <2>2, <2>3 DEF Lifecycle!Claim, Lifecycle!InPhase, At
    <2> QED BY <2>4 DEF Implements, Lifecycle!Next
<1>13. CASE ~Stored(h) \/ (Written(outcome) /\ outcome # "ok")
    <2>1. Life(h)' = Over /\ (Life(h) = Over \/ Life(h).phase = "scheduled")
        BY <1>10, <1>11, <1>13 DEF At
    <2> QED BY <1>4, <1>7, <2>1, OneEnds
<1>14. CASE Stored(h) /\ ~Written(outcome)
    <2>1. Life(h)' = Life(h)
        BY <1>11, <1>14
    <2> QED BY <1>4, <1>7, <2>1, NothingMoves
<1> QED BY <1>12, <1>13, <1>14

LEMMA SchedulingImplements ==
    ASSUME TypeOK, Ownership, RecordInv, ExecutionInv, BatchScheduled, Lives, Lives',
           Scheduling
    PROVE  Implements
<1>1. CASE PollRemove
    BY <1>1, RemoveImplements DEF Scheduling
<1>2. CASE PollStart \/ PollFetch \/ PollDispatch \/ SchedulerExit
    <2>1. UNCHANGED <<jobs, schedule, issued, now, tries, workerPc, workerJob, workerRec>>
        BY <1>2 DEF Scheduling, PollStart, PollFetch, PollDispatch, SchedulerExit, storeVars,
                    execVars, historyVars, apiVars
    <2>2. \A v \in Workers : HasRecord(v)' <=> HasRecord(v)
        BY <2>1 DEF HasRecord
    <2>3. \A j \in Jobs : Held(j)' <=> Held(j)
        BY <2>1 DEF Held, Busy
    <2>4. ASSUME NEW j \in Jobs
          PROVE  Claimed(j)' <=> Claimed(j)
        <3>1. CASE PollDispatch
            <4>1. PICK sent \in Jobs : sent = Head(batch)
                BY <3>1 DEF PollDispatch, TypeOK, SchedulerTypeOK
            <4>2. queue \in Seq(Jobs) /\ queue' = Append(queue, sent)
                BY <3>1, <4>1 DEF PollDispatch, Dispatch, TypeOK, ExecutorTypeOK
            <4>3. Queued(j)' <=> Queued(j) \/ j = sent
                <5>1. /\ Len(queue') = Len(queue) + 1 /\ Len(queue) \in Nat
                      /\ \A i \in 1 .. Len(queue) : queue'[i] = queue[i]
                      /\ queue'[Len(queue')] = sent
                    BY <4>2
                <5> QED BY <5>1 DEF Queued
            <4>4. (InHand(j) <=> j = sent) /\ ~InHand(j)'
                BY <3>1, <4>1 DEF PollDispatch, NextInBatch, InHand
            <4> QED BY <2>3, <4>3, <4>4 DEF Claimed
        <3>2. CASE PollStart \/ PollFetch \/ SchedulerExit
            <4>1. /\ queue' = queue /\ ~InHand(j) /\ ~InHand(j)'
                BY <3>2 DEF PollStart, PollFetch, SchedulerExit, InHand, execVars
            <4> QED BY <2>3, <4>1 DEF Claimed, Queued
        <3> QED BY <1>2, <3>1, <3>2
    <2>5. ASSUME NEW j \in Jobs
          PROVE  Life(j)' = Life(j)
        BY <2>1, <2>2, <2>4, LifeKept DEF Scheduled
    <2> QED BY <2>1, <2>5, NothingMoves
<1> QED BY <1>1, <1>2 DEF Scheduling, SchedulerStep

-----------------------------------------------------------------------------

(* The handlers, the end of the process, and time. *)

LEMMA LifePhase ==
    ASSUME Lives, NEW j \in Jobs, j \in issued
    PROVE  Life(j) = Over \/ Life(j).phase \in {"scheduled", "claimed", "firing", "settling"}
<1>1. ASSUME NEW w \in Workers, HasRecord(w), workerJob[w] = j
      PROVE  Life(j) = Over \/ Life(j).phase \in {"scheduled", "claimed", "firing", "settling"}
    <2>1. Life(j) = ExecutedLife(j, w)
        BY <1>1 DEF Lives, LifeIs
    <2>2. \/ ExecutedLife(j, w) = Over
          \/ ExecutedLife(j, w).phase \in {"claimed", "firing", "settling"}
        BY DEF ExecutedLife, At, Over
    <2> QED BY <2>1, <2>2
<1>2. CASE ~Executing(j)
    BY <1>2 DEF Lives, LifeIs, At
<1> QED BY <1>1, <1>2 DEF Executing

LEMMA CreateImplements ==
    ASSUME TypeOK, Ownership, Lives, Lives', NEW j \in Jobs, HandleCreate(j),
           UNCHANGED <<now, execVars, schedVars>>
    PROVE  Implements
<1>1. PICK outcome \in RequestOutcomes : CreateJob(j, NewJob(j), outcome)
    BY DEF HandleCreate
<1>2. /\ j \notin issued /\ issued' = issued \cup {j}
      /\ ~Stored(j) /\ ~Scheduled(j) /\ ~InBatch(j) /\ ~Queued(j) /\ ~Held(j)
    BY DEF HandleCreate, Ownership
<1>3. /\ UNCHANGED <<now, tries, queue, workerPc, workerJob, workerRec, batch, schedPc>>
      /\ \A i \in Jobs \ {j} : jobs'[i] = jobs[i] /\ schedule'[i] = schedule[i]
    BY <1>1 DEF CreateJob, execVars, historyVars, schedVars, TypeOK, StoreTypeOK, storeVars
<1>4. \A i \in Jobs : (Claimed(i)' <=> Claimed(i)) /\ (Executing(i)' <=> Executing(i))
    BY <1>3 DEF Claimed, InHand, Queued, Held, Busy, Executing, HasRecord
<1>5. \A v \in Workers : HasRecord(v)' <=> HasRecord(v)
    BY <1>3 DEF HasRecord
<1>6. ASSUME NEW i \in Jobs \ {j}
      PROVE  Life(i)' = Life(i)
    BY <1>2, <1>3, <1>4, <1>5, LifeKept DEF Scheduled
<1>7. Life(j) = At("unknown", 0)
    BY <1>2 DEF Lives, LifeIs
<1>8. ~Executing(j)' /\ ~Claimed(j)' /\ j \in issued'
    <2>1. ~Executing(j)
        BY <1>2 DEF Executing, Held, HasRecord, Busy
    <2>2. ~InHand(j)
        BY <1>2 DEF InHand, InBatch, TypeOK, SchedulerTypeOK
    <2> QED BY <1>2, <1>4, <2>1, <2>2 DEF Claimed
<1>9. Life(j)' = IF Stored(j)' /\ Scheduled(j)' THEN At("scheduled", schedule'[j]) ELSE Over
    BY <1>8 DEF Lives, LifeIs, At, Over
<1>10. CASE Written(outcome)
    <2>1. schedule'[j] = Request[j].dueAtMs /\ jobs'[j] \in JobRecord
        <3>1. jobs'[j] = HSet(jobs[j], NewJob(j)) /\ schedule'[j] = NewJob(j).due
            BY <1>1, <1>10 DEF CreateJob, TypeOK, StoreTypeOK
        <3>2. HSet(jobs[j], NewJob(j)) \in JobRecord
            BY NewJobType, HSetType DEF TypeOK, StoreTypeOK
        <3> QED BY <3>1, <3>2 DEF NewJob
    <2>2. Stored(j)' /\ Scheduled(j)'
        BY <2>1, AbsentAssumption, RequestAssumption DEF Stored, Scheduled, ValidRequest
    <2>3. Life(j)' = Lifecycle!At("scheduled", Request[j].dueAtMs)
        BY <1>9, <2>1, <2>2 DEF At, Lifecycle!At
    <2>4. Lifecycle!Create(j)
        BY <1>3, <1>6, <1>7, <2>3, OneMoves DEF Lifecycle!Create, Lifecycle!InPhase, At
    <2> QED BY <2>4 DEF Implements, Lifecycle!Next
<1>11. CASE ~Written(outcome)
    <2>1. ~Stored(j)'
        BY <1>1, <1>2, <1>11 DEF CreateJob, Stored, storeVars
    <2>2. Life(j)' = Lifecycle!Over
        BY <1>9, <2>1 DEF Over, At, Lifecycle!Over, Lifecycle!At
    <2>3. Lifecycle!Create(j)
        BY <1>3, <1>6, <1>7, <2>2, OneMoves DEF Lifecycle!Create, Lifecycle!InPhase, At
    <2> QED BY <2>3 DEF Implements, Lifecycle!Next
<1> QED BY <1>10, <1>11

LEMMA DeletingImplements ==
    ASSUME TypeOK, Ownership, Lives, Lives', NEW j \in Jobs,
           HandleDeleteLookup(j) \/ HandleDelete(j),
           UNCHANGED <<now, execVars, schedVars>>
    PROVE  Implements
<1>1. /\ UNCHANGED <<now, tries, queue, workerPc, workerJob, workerRec, batch, schedPc, issued>>
      /\ \A i \in Jobs \ {j} : jobs'[i] = jobs[i] /\ schedule'[i] = schedule[i]
      /\ \/ jobs'[j] = jobs[j] /\ schedule'[j] = schedule[j]
         \/ ~Stored(j)' /\ ~Scheduled(j)'
    BY DEF HandleDeleteLookup, HandleDelete, DeleteJob, Stored, Scheduled, execVars,
           historyVars, schedVars, TypeOK, StoreTypeOK, storeVars
<1>2. \A i \in Jobs : (Claimed(i)' <=> Claimed(i)) /\ (Executing(i)' <=> Executing(i))
    BY <1>1 DEF Claimed, InHand, Queued, Held, Busy, Executing, HasRecord
<1>3. \A v \in Workers : HasRecord(v)' <=> HasRecord(v)
    BY <1>1 DEF HasRecord
<1>4. ASSUME NEW i \in Jobs, jobs'[i] = jobs[i], schedule'[i] = schedule[i]
      PROVE  Life(i)' = Life(i)
    BY <1>1, <1>2, <1>3, <1>4, LifeKept DEF Scheduled
<1>5. j \in issued
    BY DEF HandleDeleteLookup, HandleDelete, Ownership
<1>6. ASSUME ~Stored(j)'
      PROVE  Life(j)' = Life(j) \/ Life(j)' = Over
    <2>1. ASSUME NEW w \in Workers, HasRecord(w), workerJob[w] = j
          PROVE  Life(j)' = Life(j) \/ Life(j)' = Over
        <3>1. Life(j) = ExecutedLife(j, w)
            BY <2>1 DEF Lives, LifeIs
        <3>2. Life(j)' = ExecutedLife(j, w)'
            BY <1>1, <2>1 DEF Lives, LifeIs, HasRecord
        <3>3. ExecutedLife(j, w)' = ExecutedLife(j, w) \/ ExecutedLife(j, w)' = Over
            BY <1>1, <1>6 DEF ExecutedLife, At, Over
        <3> QED BY <3>1, <3>2, <3>3
    <2>2. CASE ~Executing(j)
        <3>1. ~Executing(j)' /\ j \in issued'
            BY <1>1, <1>2, <1>5, <2>2
        <3> QED BY <1>6, <3>1 DEF Lives, LifeIs, Over, At
    <2> QED BY <2>1, <2>2 DEF Executing
<1>7. Life(j)' = Life(j) \/ Life(j)' = Over
    BY <1>1, <1>4, <1>6
<1>8. CASE Life(j)' = Life(j)
    BY <1>1, <1>4, <1>8, NothingMoves
<1>9. CASE Life(j)' = Over
    BY <1>1, <1>4, <1>5, <1>9, LifePhase, OneEnds
<1> QED BY <1>7, <1>8, <1>9

LEMMA GoneImplements ==
    ASSUME TypeOK, Ownership, Lives, Lives', ProcessGone
    PROVE  Implements
<1>1. /\ UNCHANGED <<jobs, schedule, now, tries, issued>>
      /\ batch' = <<>> /\ queue' = <<>> /\ schedPc' = "select"
      /\ workerPc' = [w \in Workers |-> "idle"]
    BY DEF ProcessGone, ExecutorFresh, SchedulerFresh, storeVars, historyVars
<1>2. \A j \in Jobs : ~Claimed(j)' /\ ~Executing(j)'
    BY <1>1 DEF Claimed, InHand, Queued, Held, Busy, Executing, HasRecord
<1>3. ASSUME NEW j \in Jobs, j \notin issued
      PROVE  Life(j)' = Life(j)
    BY <1>1, <1>3 DEF Lives, LifeIs, At
<1>4. ASSUME NEW j \in Jobs, j \in issued
      PROVE  Life(j)' = Life(j) \/ Life(j)' = Over
    <2>1. Life(j)' = IF Stored(j)' /\ Scheduled(j)' THEN At("scheduled", schedule'[j]) ELSE Over
        BY <1>1, <1>2, <1>4 DEF Lives, LifeIs, At, Over
    <2>2. CASE Stored(j) /\ Scheduled(j)
        <3>1. ~Executing(j)
            BY <2>2 DEF Ownership, Claimed, Held, Executing, HasRecord, Busy
        <3>2. Life(j) = At("scheduled", schedule[j])
            BY <1>4, <2>2, <3>1 DEF Lives, LifeIs
        <3> QED BY <1>1, <2>1, <2>2, <3>2 DEF Stored, Scheduled, At
    <2>3. CASE ~(Stored(j) /\ Scheduled(j))
        BY <1>1, <2>1, <2>3 DEF Stored, Scheduled
    <2> QED BY <2>2, <2>3
<1>5. PICK lost : lost = {j \in Jobs : Life(j)' # Life(j)}
    OBVIOUS
<1>6. CASE lost = {}
    <2>1. \A j \in Jobs : Life(j)' = Life(j)
        BY <1>5, <1>6
    <2> QED BY <1>1, <2>1, NothingMoves
<1>7. CASE lost # {}
    <2>1. lost \in SUBSET Jobs
        BY <1>5
    <2>2. \A j \in lost : Life(j).phase \in {"scheduled", "claimed", "firing", "settling"}
        BY <1>3, <1>4, <1>5, LifePhase
    <2>3. \A j \in Jobs : Life(j)' = IF j \in lost THEN Lifecycle!Over ELSE Life(j)
        BY <1>3, <1>4, <1>5 DEF Over, At, Lifecycle!Over, Lifecycle!At
    <2>4. Lifecycle!Lose(lost)
        BY <1>1, <1>7, <2>1, <2>2, <2>3 DEF Lifecycle!Lose
    <2> QED BY <2>1, <2>4 DEF Implements, Lifecycle!Next
<1> QED BY <1>6, <1>7

LEMMA StepImplements ==
    ASSUME TypeOK, Ownership, RecordInv, ExecutionInv, BatchScheduled, Ownership',
           [Next]_vars
    PROVE  Implements
<1>1. Lives /\ Lives'
    BY LivesHold, LivesHoldNext
<1>2. CASE Tick \/ Signal \/ StopExecutor \/ Restart \/ UNCHANGED vars
    <2>1. /\ UNCHANGED <<storeVars, execVars, schedVars, apiVars>>
          /\ now' = now \/ (now' = now + 1 /\ now \in Int)
        BY <1>2 DEF Tick, Signal, StopExecutor, Restart, vars, TypeOK, ProcessTypeOK
    <2>2. /\ UNCHANGED <<jobs, schedule, issued, tries, queue, workerPc, workerJob, workerRec>>
          /\ \A j \in Jobs : Claimed(j)' <=> Claimed(j)
        BY <2>1 DEF storeVars, execVars, historyVars, schedVars, apiVars, Claimed, InHand,
                    Queued, Held, Busy
    <2>3. \A v \in Workers : HasRecord(v)' <=> HasRecord(v)
        BY <2>2 DEF HasRecord
    <2>4. ASSUME NEW j \in Jobs
          PROVE  Life(j)' = Life(j)
        BY <1>1, <2>2, <2>3, LifeKept DEF Scheduled
    <2>5. CASE now' = now
        BY <2>2, <2>4, <2>5, NothingMoves
    <2>6. CASE now' = now + 1 /\ now \in Int
        <3>1. Lifecycle!TimePasses
            BY <2>2, <2>4, <2>6 DEF Lifecycle!TimePasses
        <3> QED BY <3>1 DEF Implements, Lifecycle!Next
    <2> QED BY <2>1, <2>5, <2>6
<1>3. CASE Scheduling
    BY <1>1, <1>3, SchedulingImplements
<1>4. ASSUME NEW w \in Workers, Working(w)
      PROVE  Implements
    BY <1>1, <1>4, WorkerImplements DEF Working
<1>5. ASSUME NEW j \in Jobs, Creating(j) \/ Deleting(j)
      PROVE  Implements
    BY <1>1, <1>5, CreateImplements, DeletingImplements DEF Creating, Deleting
<1>6. CASE Exit \/ Crash
    BY <1>1, <1>6, GoneImplements DEF Exit, Crash
<1> QED BY <1>2, <1>3, <1>4, <1>5, <1>6 DEF Next

\* TickHook does nothing to a job that its lifecycle does not allow, for any jobs,
\* workers and limits, whatever the store, the clients, the signals and crashes do.
THEOREM LifecycleImplemented == Spec => ImplementsLifecycle
<1>1. Init => Lifecycle!Init
    <2> SUFFICES ASSUME Init
                 PROVE  Lifecycle!Init
        OBVIOUS
    <2>1. Lives
        BY OwnershipInit, LivesHold
    <2>2. \A j \in Jobs : Life(j) = Lifecycle!At("unknown", 0)
        BY <2>1 DEF Init, ApiInit, Lives, LifeIs, At, Lifecycle!At
    <2> QED BY <2>2 DEF Init, ExecutorInit, Lifecycle!Init
<1>2. Init => BatchScheduled
    BY DEF Init, SchedulerInit, BatchScheduled, InBatch
<1>3. TypeOK /\ Ownership /\ BatchScheduled /\ [Next]_vars => BatchScheduled'
    BY BatchNext
<1>4. (/\ TypeOK /\ Ownership /\ RecordInv /\ ExecutionInv /\ BatchScheduled
       /\ Ownership' /\ [Next]_vars)
      => Implements
    BY StepImplements
<1> QED BY <1>1, <1>2, <1>3, <1>4, ExecutionHolds, PTL
        DEF Spec, ImplementsLifecycle, Implements, Lifecycle!Spec
=============================================================================
