----------------------------- MODULE TwoProcesses -----------------------------
(***************************************************************************)
(* Two TickHook processes over one Redis namespace, as during the          *)
(* blue-green upgrade of docs/DEPLOYMENT.md:738-748: the new version is    *)
(* started before the old one is stopped.  They share what is in Redis,    *)
(* the clock and the supply of UUIDs; everything else each has for itself. *)
(***************************************************************************)
EXTENDS Naturals

CONSTANTS Jobs, Request, MaxBackoffMs, JitterMaxMs, Absent, StoreFaults, Batch,
          MaxNow, Workers, MaxPerDomain, Environment

VARIABLES
    jobs, schedule, now, issued, deleted, tries, succeeded,     \* shared
    bMain, bQueue, bPc, bJob, bRec, bSched, bPoll, bBatch, bDeleting,
    gMain, gQueue, gPc, gJob, gRec, gSched, gPoll, gBatch, gDeleting

blueVars == <<bMain, bQueue, bPc, bJob, bRec, bSched, bPoll, bBatch, bDeleting>>

greenVars == <<gMain, gQueue, gPc, gJob, gRec, gSched, gPoll, gBatch, gDeleting>>

sharedVars == <<jobs, schedule, now, issued, deleted, tries, succeeded>>

\* TickHook, taken with what is proved of it.
Blue == INSTANCE TickHookProofs WITH
    mainPc <- bMain, queue <- bQueue, workerPc <- bPc, workerJob <- bJob,
    workerRec <- bRec, schedPc <- bSched, pollNow <- bPoll, batch <- bBatch,
    deleting <- bDeleting

Green == INSTANCE TickHookProofs WITH
    mainPc <- gMain, queue <- gQueue, workerPc <- gPc, workerJob <- gJob,
    workerRec <- gRec, schedPc <- gSched, pollNow <- gPoll, batch <- gBatch,
    deleting <- gDeleting

\* Both are given parameters a process can have.
ASSUME ParametersAssumption ==
    /\ Blue!RequestAssumption /\ Blue!BackoffAssumption /\ Blue!AbsentAssumption
    /\ Blue!StoreAssumption /\ Blue!ClockAssumption /\ Blue!ExecutorAssumption
    /\ Blue!EnvironmentAssumption

\* The new version is not there yet.
Init ==
    /\ Blue!Init
    /\ gMain = "exited"
    /\ Green!ExecutorInit
    /\ Green!SchedulerInit
    /\ gDeleting = {}

\* The clock, the signals and the crashes of the model are those of the old process.
BlueStep == Blue!Next /\ UNCHANGED greenVars

StartGreen ==
    /\ gMain = "exited"
    /\ gMain' = "running"
    /\ UNCHANGED <<sharedVars, blueVars, gQueue, gPc, gJob, gRec, gSched, gPoll,
                   gBatch, gDeleting>>

GreenStep ==
    /\ \/ Green!Scheduling
       \/ \E w \in Workers : Green!Working(w)
       \/ \E j \in Jobs : Green!Creating(j) \/ Green!Deleting(j)
    /\ UNCHANGED blueVars

Next == BlueStep \/ StartGreen \/ GreenStep

Spec == Init /\ [][Next]_<<sharedVars, blueVars, greenVars>>

-----------------------------------------------------------------------------

Stored(j) == Blue!Stored(j)

Tracked(j) == Blue!Scheduled(j) \/ Blue!Claimed(j) \/ Green!Claimed(j)

\* Safety, while nothing fails and no process stops.  Two processes may run a job
\* twice, but they do not lose one: whatever they do to each other's jobs, a pending
\* one is scheduled or claimed by one of them (scheduler.go:92, executor.go:281-286).
NoJobIsLost ==
    \A j \in Jobs :
        Stored(j) /\ jobs[j].status = "pending" => Tracked(j)
=============================================================================
