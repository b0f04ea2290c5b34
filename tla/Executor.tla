------------------------------ MODULE Executor ------------------------------
(***************************************************************************)
(* internal/executor/executor.go: the job queue and the worker pool.       *)
(*                                                                         *)
(* workerPc[w] is where worker w stands:                                   *)
(*   "idle"        selecting on ctx.Done(), stopCh and jobQueue            *)
(*   "load"        has a job ID, about to call GetJob                      *)
(*   "domain"      selecting on its domain's semaphore                     *)
(*   "inflight"    in doWebhook                                            *)
(*   "delete"      about to call DeleteJob                                 *)
(*   "update"      about to call UpdateJob                                 *)
(*   "reschedule"  about to call AddToSchedule                             *)
(*   "exited"      returned                                                *)
(*                                                                         *)
(* The global semaphore has as many slots as there are workers, so a       *)
(* worker never waits for one: taking it is part of WorkerTake.  Both      *)
(* semaphores are released by the deferred calls of executeJob, that is in *)
(* every step back to "idle".  A slot of a domain is held from "inflight"  *)
(* on.                                                                     *)
(***************************************************************************)
EXTENDS Process

CONSTANTS
    Workers,        \* the worker goroutines; --max-inflight of them
    MaxPerDomain    \* --max-per-domain

ASSUME ExecutorAssumption ==
    /\ IsFiniteSet(Workers)
    /\ Workers # {}
    /\ MaxPerDomain \in Nat \ {0}

VARIABLES
    queue,          \* jobQueue, a buffered channel of job IDs
    workerPc,
    workerJob,      \* the job ID a busy worker handles, else Absent
    workerRec,      \* its copy of the job from "domain" on, else Absent
    tries,          \* history: requests sent for j since its last success
    succeeded       \* history: the one-shot jobs whose webhook was answered 2xx

historyVars == <<tries, succeeded>>

execVars == <<queue, workerPc, workerJob, workerRec, historyVars>>

WorkerPc == {"idle", "load", "domain", "inflight", "delete", "update",
             "reschedule", "exited"}

HasRecord(w) == workerPc[w] \notin {"idle", "load", "exited"}

Busy(w) == workerPc[w] \notin {"idle", "exited"}

ExecutorTypeOK ==
    /\ queue \in Seq(Jobs)
    /\ workerPc \in [Workers -> WorkerPc]
    /\ workerJob \in [Workers -> Jobs \cup {Absent}]
    /\ workerRec \in [Workers -> JobRecord \cup {Absent}]
    /\ tries \in [Jobs -> Nat]
    /\ succeeded \subseteq Jobs
    /\ \A w \in Workers :
        /\ Busy(w) => workerJob[w] \in Jobs
        /\ HasRecord(w) => workerRec[w] \in JobRecord

ExecutorFresh ==
    /\ queue' = <<>>
    /\ workerPc' = [w \in Workers |-> "idle"]
    /\ workerJob' = [w \in Workers |-> Absent]
    /\ workerRec' = [w \in Workers |-> Absent]

ExecutorInit ==
    /\ queue = <<>>
    /\ workerPc = [w \in Workers |-> "idle"]
    /\ workerJob = [w \in Workers |-> Absent]
    /\ workerRec = [w \in Workers |-> Absent]
    /\ tries = [j \in Jobs |-> 0]
    /\ succeeded = {}

-----------------------------------------------------------------------------

QueueCapacity == 2 * Cardinality(Workers)

\* Dispatch: a send on the buffered queue, blocked while it is full.  (Its other
\* branch, stopCh, is closed only after the scheduler has returned.)
Dispatch(j) ==
    /\ Len(queue) < QueueCapacity
    /\ queue' = Append(queue, j)

\* executeJob returns; its deferred calls release what the worker holds.
Release(w) ==
    /\ workerPc' = [workerPc EXCEPT ![w] = "idle"]
    /\ workerJob' = [workerJob EXCEPT ![w] = Absent]
    /\ workerRec' = [workerRec EXCEPT ![w] = Absent]

Goto(w, pc) == workerPc' = [workerPc EXCEPT ![w] = pc]

\* The worker receives a job ID and takes its slot of the global semaphore.
WorkerTake(w) ==
    /\ workerPc[w] = "idle"
    /\ queue # <<>>
    /\ queue' = Tail(queue)
    /\ Goto(w, "load")
    /\ workerJob' = [workerJob EXCEPT ![w] = Head(queue)]
    /\ UNCHANGED <<storeVars, workerRec, historyVars>>

WorkerExit(w) ==
    /\ workerPc[w] = "idle"
    /\ CtxDone
    /\ Goto(w, "exited")
    /\ UNCHANGED <<storeVars, queue, workerJob, workerRec, historyVars>>

\* GetJob: an error, "not found" included, ends the execution silently.
WorkerLoad(w) ==
    /\ workerPc[w] = "load"
    /\ \E outcome \in ReadOutcomes :
        LET j == workerJob[w]
        IN  IF outcome = "ok" /\ Stored(j)
            THEN /\ Goto(w, "domain")
                 /\ workerRec' = [workerRec EXCEPT ![w] = jobs[j]]
                 /\ UNCHANGED workerJob
            ELSE Release(w)
    /\ UNCHANGED <<storeVars, queue, historyVars>>

\* ctx.Done() wins the select on the domain semaphore.
WorkerAbandon(w) ==
    /\ workerPc[w] = "domain"
    /\ CtxDone
    /\ Release(w)
    /\ UNCHANGED <<storeVars, queue, historyVars>>

HoldsDomainSlot(w) == workerPc[w] \in {"inflight", "delete", "update", "reschedule"}

DomainOf(w) == Request[workerJob[w]].domain

SlotsTaken(domain) ==
    Cardinality({v \in Workers : HoldsDomainSlot(v) /\ DomainOf(v) = domain})

\* A plausible slip: the semaphore is made one slot too small.
SlotFreeOneFewer(domain) == SlotsTaken(domain) < MaxPerDomain - 1

\* A send on the domain's semaphore would not block.
SlotFree(domain) == SlotsTaken(domain) < MaxPerDomain

\* The slot is taken and the webhook leaves.  With ctx already cancelled the
\* request would not be sent and its failure not be stored: that is WorkerAbandon.
WorkerFire(w) ==
    /\ workerPc[w] = "domain"
    /\ ~CtxDone
    /\ SlotFree(DomainOf(w))
    /\ Goto(w, "inflight")
    /\ tries' = [tries EXCEPT ![workerJob[w]] = @ + 1]
    /\ UNCHANGED <<storeVars, queue, workerJob, workerRec, succeeded>>

\* A 2xx answer.
WorkerSucceeds(w) ==
    /\ workerPc[w] = "inflight"
    /\ LET j == workerJob[w]
       IN  IF Request[j].type = "one_shot"
           THEN /\ Goto(w, "delete")
                /\ succeeded' = succeeded \cup {j}
                /\ UNCHANGED workerRec
           ELSE /\ Goto(w, "update")
                /\ workerRec' = [workerRec EXCEPT ![w] = AfterSuccess(j, @)]
                /\ UNCHANGED succeeded
    /\ tries' = [tries EXCEPT ![workerJob[w]] = 0]
    /\ UNCHANGED <<storeVars, queue, workerJob>>

\* A 4xx answer other than 429.
WorkerRefused(w) ==
    /\ workerPc[w] = "inflight"
    /\ Goto(w, "update")
    /\ workerRec' = [workerRec EXCEPT ![w] = AfterClientError(workerJob[w], @)]
    /\ UNCHANGED <<storeVars, queue, workerJob, historyVars>>

\* Any other answer, no answer in time, a network error or a cancelled request.
WorkerFails(w) ==
    /\ workerPc[w] = "inflight"
    /\ Goto(w, "update")
    /\ \E rec \in AfterFailure(workerJob[w], workerRec[w], now) :
            workerRec' = [workerRec EXCEPT ![w] = rec]
    /\ UNCHANGED <<storeVars, queue, workerJob, historyVars>>

\* A plausible slip: the job is run again because its DeleteJob failed.
WorkerDeleteOrReschedule(w) ==
    /\ workerPc[w] = "delete"
    /\ \E outcome \in WriteOutcomes :
        /\ DeleteJob(workerJob[w], outcome)
        /\ IF outcome = "ok"
           THEN Release(w)
           ELSE Goto(w, "reschedule") /\ UNCHANGED <<workerJob, workerRec>>
    /\ UNCHANGED <<queue, historyVars>>

\* DeleteJob after the success of a one-shot job; its error is only logged.
WorkerDelete(w) ==
    /\ workerPc[w] = "delete"
    /\ \E outcome \in WriteOutcomes : DeleteJob(workerJob[w], outcome)
    /\ Release(w)
    /\ UNCHANGED <<queue, historyVars>>

\* Plausible slips: the error of UpdateJob is not looked at; the final failure
\* does not return; only a retry is put back into the schedule.
ContinuesAfterError(outcome, rec) == rec.status = "pending"
ContinuesAfterFinalFailure(outcome, rec) == outcome = "ok"
ContinuesOnlyToRetry(outcome, rec) ==
    outcome = "ok" /\ rec.status = "pending" /\ rec.attempt > 0

\* What is left to do after UpdateJob: nothing on an error or a final failure.
Continues(outcome, rec) == outcome = "ok" /\ rec.status = "pending"

\* UpdateJob of the new record.
WorkerUpdate(w) ==
    /\ workerPc[w] = "update"
    /\ \E outcome \in WriteOutcomes :
        /\ UpdateJob(workerJob[w], workerRec[w], outcome)
        /\ IF Continues(outcome, workerRec[w])
           THEN /\ Goto(w, "reschedule")
                /\ UNCHANGED <<workerJob, workerRec>>
           ELSE Release(w)
    /\ UNCHANGED <<queue, historyVars>>

WorkerReschedule(w) ==
    /\ workerPc[w] = "reschedule"
    /\ \E outcome \in WriteOutcomes :
            AddToSchedule(workerJob[w], workerRec[w].due, outcome)
    /\ Release(w)
    /\ UNCHANGED <<queue, historyVars>>

WorkerStep(w) ==
    \/ WorkerTake(w) \/ WorkerExit(w) \/ WorkerLoad(w) \/ WorkerAbandon(w)
    \/ WorkerFire(w) \/ WorkerSucceeds(w) \/ WorkerRefused(w) \/ WorkerFails(w)
    \/ WorkerDelete(w) \/ WorkerUpdate(w) \/ WorkerReschedule(w)
=============================================================================
