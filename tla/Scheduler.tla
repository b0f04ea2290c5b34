----------------------------- MODULE Scheduler -----------------------------
(***************************************************************************)
(* internal/scheduler/scheduler.go: the polling loop.                      *)
(*                                                                         *)
(* schedPc is where the scheduler goroutine stands:                        *)
(*   "select"    waiting for the ticker, ctx.Done() or stopCh              *)
(*   "fetch"     has read the clock, about to call GetDueJobs              *)
(*   "remove"    about to call RemoveFromSchedule on the head of batch     *)
(*   "dispatch"  in Dispatch with the head of batch                        *)
(*   "done"      doneCh is closed                                          *)
(***************************************************************************)
EXTENDS Executor

VARIABLES
    schedPc,
    pollNow,        \* nowMs of the running poll, 0 outside of "fetch"
    batch           \* the fetched job IDs not dispatched yet

schedVars == <<schedPc, pollNow, batch>>

SchedPc == {"select", "fetch", "remove", "dispatch", "done"}

SchedulerTypeOK ==
    /\ schedPc \in SchedPc
    /\ pollNow \in 0 .. MaxNow
    /\ batch \in Seq(Jobs)
    /\ schedPc \in {"remove", "dispatch"} <=> batch # <<>>

SchedulerInit == schedPc = "select" /\ pollNow = 0 /\ batch = <<>>

SchedulerFresh == schedPc' = "select" /\ pollNow' = 0 /\ batch' = <<>>

\* A plausible slip: the loop does not stop at the end of the batch.
NextInBatchUnchecked ==
    /\ batch' = Tail(batch)
    /\ schedPc' = "remove"

\* The rest of the loop of poll() over the batch.
NextInBatch ==
    /\ batch' = Tail(batch)
    /\ schedPc' = IF Tail(batch) = <<>> THEN "select" ELSE "remove"

-----------------------------------------------------------------------------

\* The ticker fires and poll() reads the clock.
PollStart ==
    /\ schedPc = "select"
    /\ schedPc' = "fetch"
    /\ pollNow' = now
    /\ UNCHANGED <<storeVars, execVars, batch>>

PollFetch ==
    /\ schedPc = "fetch"
    /\ \E outcome \in ReadOutcomes :
        IF outcome = "ok"
        THEN batch' \in GetDueJobs(pollNow)
        ELSE batch' = <<>>
    /\ schedPc' = IF batch' = <<>> THEN "select" ELSE "remove"
    /\ pollNow' = 0
    /\ UNCHANGED <<storeVars, execVars>>

\* A plausible slip: the error of RemoveFromSchedule is only logged.
PollRemoveIgnoringError ==
    /\ schedPc = "remove"
    /\ \E outcome \in WriteOutcomes : RemoveFromSchedule(Head(batch), outcome)
    /\ schedPc' = "dispatch"
    /\ UNCHANGED <<execVars, pollNow, batch>>

\* RemoveFromSchedule; on an error the loop continues with the next job.
PollRemove ==
    /\ schedPc = "remove"
    /\ \E outcome \in WriteOutcomes :
        /\ RemoveFromSchedule(Head(batch), outcome)
        /\ IF outcome = "ok"
           THEN schedPc' = "dispatch" /\ UNCHANGED batch
           ELSE NextInBatch
    /\ UNCHANGED <<execVars, pollNow>>

PollDispatch ==
    /\ schedPc = "dispatch"
    /\ Dispatch(Head(batch))
    /\ NextInBatch
    /\ UNCHANGED <<storeVars, workerPc, workerJob, workerRec, historyVars, pollNow>>

\* A plausible slip: the loop wants to dispatch what is due before it returns.
SchedulerExitWhenDrained ==
    /\ schedPc = "select"
    /\ CtxDone
    /\ DueAt(now) = {}
    /\ schedPc' = "done"
    /\ UNCHANGED <<storeVars, execVars, pollNow, batch>>

\* select sees ctx.Done() (or stopCh, which is closed later).
SchedulerExit ==
    /\ schedPc = "select"
    /\ CtxDone
    /\ schedPc' = "done"
    /\ UNCHANGED <<storeVars, execVars, pollNow, batch>>

SchedulerStep ==
    PollStart \/ PollFetch \/ PollRemove \/ PollDispatch \/ SchedulerExit
=============================================================================
