------------------------------ MODULE TickHook ------------------------------
(***************************************************************************)
(* A TickHook process over its Redis: the HTTP handlers, the scheduler     *)
(* goroutine and the worker goroutines interleave on the store, the job    *)
(* queue and the signal context; run() of cmd/tickhook/main.go starts      *)
(* them and takes them down in order.  A killed process loses its          *)
(* goroutines and its queue; Redis keeps the rest.                         *)
(***************************************************************************)
EXTENDS Scheduler, HttpApi

CONSTANT Environment    \* what may happen to the process in this model

ASSUME EnvironmentAssumption ==
    Environment \subseteq {"delete", "signal", "crash", "restart"}

vars == <<storeVars, now, mainPc, execVars, schedVars, apiVars>>

TypeOK ==
    /\ StoreTypeOK
    /\ ProcessTypeOK
    /\ ExecutorTypeOK
    /\ SchedulerTypeOK
    /\ ApiTypeOK

Init ==
    /\ StoreInit
    /\ now = 0
    /\ mainPc = "running"
    /\ ExecutorInit
    /\ SchedulerInit
    /\ ApiInit

-----------------------------------------------------------------------------

\* Time passes, whether the process runs or not.
Tick ==
    /\ now < MaxNow
    /\ now' = now + 1
    /\ UNCHANGED <<storeVars, mainPc, execVars, schedVars, apiVars>>

Scheduling ==
    /\ Alive
    /\ SchedulerStep
    /\ UNCHANGED <<now, mainPc, apiVars>>

Working(w) ==
    /\ Alive
    /\ WorkerStep(w)
    /\ UNCHANGED <<now, mainPc, schedVars, apiVars>>

Creating(j) ==
    /\ Alive
    /\ HandleCreate(j)
    /\ UNCHANGED <<now, mainPc, execVars, schedVars>>

Deleting(j) ==
    /\ Alive
    /\ "delete" \in Environment
    /\ HandleDeleteLookup(j) \/ HandleDelete(j)
    /\ UNCHANGED <<now, mainPc, execVars, schedVars>>

\* SIGTERM or SIGINT, or the HTTP server failing to listen: ctx is cancelled and
\* run() goes on to sched.Stop() and sched.Wait().
Signal ==
    /\ "signal" \in Environment
    /\ mainPc = "running"
    /\ mainPc' = "waitSched"
    /\ UNCHANGED <<storeVars, now, execVars, schedVars, apiVars>>

\* sched.Wait() returns; exec.Stop() closes stopCh and jobQueue.
StopExecutor ==
    /\ mainPc = "waitSched"
    /\ schedPc = "done"
    /\ mainPc' = "waitExec"
    /\ UNCHANGED <<storeVars, now, execVars, schedVars, apiVars>>

\* The goroutines are gone, the handlers that had not finished included.
ProcessGone ==
    /\ mainPc' = "exited"
    /\ ExecutorFresh
    /\ SchedulerFresh
    /\ deleting' = {}
    /\ UNCHANGED <<storeVars, now, historyVars, issued, deleted>>

\* exec.Wait() returns, the HTTP server is shut down and run() returns.
Exit ==
    /\ mainPc = "waitExec"
    /\ \A w \in Workers : workerPc[w] = "exited"
    /\ ProcessGone

Crash ==
    /\ "crash" \in Environment
    /\ Alive
    /\ ProcessGone

\* A new process connects to the same Redis.
Restart ==
    /\ "restart" \in Environment
    /\ ~Alive
    /\ mainPc' = "running"
    /\ UNCHANGED <<storeVars, now, execVars, schedVars, apiVars>>

Next ==
    \/ Tick
    \/ Scheduling
    \/ \E w \in Workers : Working(w)
    \/ \E j \in Jobs : Creating(j) \/ Deleting(j)
    \/ Signal
    \/ StopExecutor
    \/ Exit
    \/ Crash
    \/ Restart

Spec == Init /\ [][Next]_vars

-----------------------------------------------------------------------------
(***************************************************************************)
(* Fairness.  The Go scheduler runs every goroutine that can run; a        *)
(* request ends because doWebhook gives it a deadline; the ticker and the  *)
(* clock keep going.  Senders blocked on a channel are served in the order *)
(* they came, so a worker waiting for a domain slot that keeps becoming    *)
(* free gets it (SF).  select picks among ready cases at random, so the    *)
(* scheduler does not overlook ctx.Done() for ever (SF).  Nothing obliges  *)
(* clients, signals or crashes to happen.                                  *)
(***************************************************************************)
Fairness ==
    /\ WF_vars(Tick)
    /\ WF_vars(Scheduling)
    /\ SF_vars(Scheduling /\ SchedulerExit)
    /\ \A w \in Workers :
        /\ WF_vars(Working(w))
        /\ SF_vars(Working(w) /\ WorkerFire(w))
    /\ WF_vars(StopExecutor)
    /\ WF_vars(Exit)

FairSpec == Spec /\ Fairness

-----------------------------------------------------------------------------
(* Where a job is, besides its hash and the schedule.                      *)

InBatch(j) == \E i \in 1 .. Len(batch) : batch[i] = j

InHand(j) == schedPc = "dispatch" /\ Head(batch) = j

Queued(j) == \E i \in 1 .. Len(queue) : queue[i] = j

Held(j) == \E w \in Workers : Busy(w) /\ workerJob[w] = j

Claimed(j) == InHand(j) \/ Queued(j) \/ Held(j)

\* A job is claimed at most once: it cannot be twice in the queue, with two
\* workers, or with the scheduler and the executor at a time.
ClaimedOnce ==
    /\ \A a, b \in 1 .. Len(queue) : queue[a] = queue[b] => a = b
    /\ \A v, w \in Workers : Busy(v) /\ Busy(w) /\ workerJob[v] = workerJob[w] => v = w
    /\ \A j \in Jobs : ~(Queued(j) /\ Held(j))
    /\ \A j \in Jobs : InHand(j) => ~Queued(j) /\ ~Held(j)

\* Safety.  No two executions of one job overlap, and none can start while one
\* is under way: a job is claimed at most once and never while it is scheduled.
\* This is what ZREM before Dispatch (scheduler.go:89-98) and ZADD as the last
\* step of an execution are for ("one future execution at a time").
SingleOwner ==
    /\ ClaimedOnce
    /\ \A j \in Jobs : Claimed(j) => ~Scheduled(j)

\* Safety.  Why SingleOwner holds, in a form every step preserves: an ID exists
\* before anything refers to it, batch, queue and workers hold every job at most
\* once and never the same one, and what is past ZREM is not scheduled.  (A job
\* further back in the batch still is: poll() removes them one by one.)
Ownership ==
    /\ \A j \in Jobs \ issued :
        /\ ~Stored(j) /\ ~Scheduled(j) /\ j \notin deleting
        /\ ~InBatch(j) /\ ~Queued(j) /\ ~Held(j)
    /\ \A a, b \in 1 .. Len(batch) : batch[a] = batch[b] => a = b
    /\ \A a, b \in 1 .. Len(queue) : queue[a] = queue[b] => a = b
    /\ \A v, w \in Workers : Busy(v) /\ Busy(w) /\ workerJob[v] = workerJob[w] => v = w
    /\ \A j \in Jobs :
        /\ InBatch(j) => ~Queued(j) /\ ~Held(j)
        /\ Queued(j) => ~Held(j)
        /\ Claimed(j) => ~Scheduled(j)

\* Safety.  The score that decides when a job runs and the due_at_ms GET reports
\* are written by two commands (executor.go:242-247, 281-286), yet a scheduled
\* job's record always says the same time, and says "pending".
ScheduleMatchesRecord ==
    \A j \in Jobs :
        Scheduled(j) /\ Stored(j) =>
            jobs[j].due = schedule[j] /\ jobs[j].status = "pending"

\* Safety.  A webhook is never sent before the due time of the record it is sent
\* from, whatever happens between the poll that found the job and the request.
NeverEarly ==
    \A w \in Workers : workerPc[w] = "inflight" => workerRec[w].due <= now

\* Safety.  Between two successes a job's webhook is sent at most max_attempts
\* times ("Max attempts including first", docs/API.md:168), across failed store
\* calls, shutdowns and crashes.
AttemptsBounded ==
    \A j \in Jobs : tries[j] <= Request[j].maxAttempts

\* Safety.  A scheduled job's stored attempt counts exactly the requests sent
\* since its last success: no update is lost or overwritten by the copy of another
\* worker, and no retry starts from a stale count (executor.go:236, 259, 299).
AttemptsCounted ==
    \A j \in Jobs : Scheduled(j) /\ Stored(j) => jobs[j].attempt = tries[j]

\* Safety.  A one-shot webhook that was answered 2xx is never sent again, even
\* when the DELETE of the job that should follow fails (executor.go:225-227).
NoFireAfterSuccess ==
    \A w \in Workers : workerPc[w] \in {"domain", "inflight"} =>
                            workerJob[w] \notin succeeded

\* Safety.  Failure is final: nobody is about to run a job whose record says
\* "failed", and it is not scheduled.
FailedIsRetired ==
    \A j \in Jobs :
        Stored(j) /\ jobs[j].status = "failed" => ~Scheduled(j) /\ ~Claimed(j)

\* Safety, when nothing fails and until the process is stopped.  A stored pending
\* job is always on its way: scheduled, or claimed by the scheduler, the queue or
\* a worker ("Job is scheduled or retrying", docs/API.md:361).
PendingIsTracked ==
    mainPc = "running" =>
        \A j \in Jobs :
            Stored(j) /\ jobs[j].status = "pending" => Scheduled(j) \/ Claimed(j)

Inflight(j) == \E w \in Workers : workerPc[w] = "inflight" /\ workerJob[w] = j

\* Liveness, when nothing fails ("At-least-once", README.md:319; a job may only be
\* lost "if the process dies", README.md:322).  A job scheduled within the modelled
\* time is sent, retries and next runs included, unless the process is stopped:
\* neither the batch limit nor a full queue nor workers busy with other jobs hold it
\* back for ever.  (That a worker waiting for a slot of its domain gets one is
\* DomainIsEntered of DomainSemaphores.tla.)
DueJobIsSent ==
    \A j \in Jobs :
        (Scheduled(j) /\ schedule[j] <= MaxNow) ~> (Inflight(j) \/ mainPc # "running")

\* Liveness.  Every claimed job is released again, in a process that runs and in
\* one that is being stopped, provided that what the scheduler still has to
\* dispatch fits into the job queue then (executor.go:73-77).
ClaimIsReleased ==
    \A j \in Jobs :
        Claimed(j) ~> (~Claimed(j) \/ (CtxDone /\ Len(batch) + Len(queue) > QueueCapacity))

\* Liveness.  A signalled process exits (main.go:99-116), provided that what the
\* scheduler still has to dispatch fits into the job queue.
ShutdownCompletes ==
    (mainPc = "waitSched" /\ Len(batch) + Len(queue) <= QueueCapacity) ~> ~Alive

-----------------------------------------------------------------------------
(* What the documentation says and the program does not do.                *)

\* "Cannot be undone" (docs/API.md:341): a job whose DELETE was acknowledged
\* does not come back.
DeleteIsFinal ==
    \A j \in deleted : ~Stored(j) /\ ~Scheduled(j)

\* "Jobs survive process restarts (stored in Redis)" (README.md:312) and "waits
\* for in-flight jobs to complete" (cmd/tickhook/main.go:104): when the process
\* has shut down, every stored pending job is scheduled for the next one.
ShutdownKeepsPending ==
    mainPc = "exited" =>
        \A j \in Jobs : Stored(j) /\ jobs[j].status = "pending" => Scheduled(j)

\* "Scheduler did not stop after context cancel" is an error
\* (internal/scheduler/scheduler_test.go:169).
SchedulerStopsOnCancel == CtxDone ~> (schedPc = "done" \/ ~Alive)
=============================================================================
