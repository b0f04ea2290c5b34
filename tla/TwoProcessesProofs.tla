------------------------- MODULE TwoProcessesProofs -------------------------
(***************************************************************************)
(* NoJobIsLost for any number of jobs and workers.  What TickHookProofs    *)
(* says of one process is used twice, once for each: a step of one of them *)
(* leaves what the other has claimed alone, and loses nothing itself.      *)
(***************************************************************************)
EXTENDS TwoProcesses, TLAPS

\* Every store call is answered, nobody is signalled and nobody crashes.
NothingFails == StoreFaults = {} /\ Environment \subseteq {"delete"}

LEMMA GreenParameters ==
    /\ Green!RequestAssumption /\ Green!BackoffAssumption /\ Green!AbsentAssumption
    /\ Green!StoreAssumption /\ Green!ClockAssumption /\ Green!ExecutorAssumption
    /\ Green!EnvironmentAssumption
BY ParametersAssumption
   DEF Blue!IsFiniteSet, Green!IsFiniteSet, Blue!ValidRequest, Green!ValidRequest,
       Blue!JobRecord, Green!JobRecord, Blue!JobType, Green!JobType, Blue!JobStatus,
       Green!JobStatus

-----------------------------------------------------------------------------
(* The state of the two processes is typed.  What they share is typed by   *)
(* either of them.                                                         *)

TwoTypesOK == Blue!TypeOK /\ Green!TypeOK

LEMMA GreenKeepsType ==
    ASSUME TwoTypesOK, Blue!TypeOK', UNCHANGED greenVars
    PROVE  Green!TypeOK'
<1>1. /\ Green!StoreTypeOK'
      /\ tries' \in [Jobs -> Nat] /\ succeeded' \subseteq Jobs
    BY DEF Blue!TypeOK, Blue!ExecutorTypeOK, Blue!StoreTypeOK, Green!StoreTypeOK,
           Blue!JobRecord, Green!JobRecord, Blue!JobStatus, Green!JobStatus
<1>2. Green!ProcessTypeOK' /\ Green!ApiTypeOK'
    <2>1. now' \in 0 .. MaxNow /\ issued' \subseteq Jobs /\ deleted' \subseteq Jobs
        BY DEF Blue!TypeOK, Blue!ProcessTypeOK, Blue!ApiTypeOK
    <2> QED BY <2>1 DEF TwoTypesOK, greenVars, Green!TypeOK, Green!ProcessTypeOK, Green!MainPc,
                        Green!ApiTypeOK
<1>3. Green!SchedulerTypeOK'
    BY DEF TwoTypesOK, greenVars, Green!TypeOK, Green!SchedulerTypeOK, Green!SchedPc
<1>4. Green!ExecutorTypeOK'
    BY <1>1 DEF TwoTypesOK, greenVars, Green!TypeOK, Green!ExecutorTypeOK, Green!Busy,
                Green!HasRecord
<1> QED BY <1>1, <1>2, <1>3, <1>4 DEF Green!TypeOK

LEMMA BlueKeepsType ==
    ASSUME TwoTypesOK, Green!TypeOK', UNCHANGED blueVars
    PROVE  Blue!TypeOK'
<1>1. /\ Blue!StoreTypeOK'
      /\ tries' \in [Jobs -> Nat] /\ succeeded' \subseteq Jobs
    BY DEF Green!TypeOK, Green!ExecutorTypeOK, Blue!StoreTypeOK, Green!StoreTypeOK,
           Blue!JobRecord, Green!JobRecord, Blue!JobStatus, Green!JobStatus
<1>2. Blue!ProcessTypeOK' /\ Blue!ApiTypeOK'
    <2>1. now' \in 0 .. MaxNow /\ issued' \subseteq Jobs /\ deleted' \subseteq Jobs
        BY DEF Green!TypeOK, Green!ProcessTypeOK, Green!ApiTypeOK
    <2> QED BY <2>1 DEF TwoTypesOK, blueVars, Blue!TypeOK, Blue!ProcessTypeOK, Blue!MainPc,
                        Blue!ApiTypeOK
<1>3. Blue!SchedulerTypeOK'
    BY DEF TwoTypesOK, blueVars, Blue!TypeOK, Blue!SchedulerTypeOK, Blue!SchedPc
<1>4. Blue!ExecutorTypeOK'
    BY <1>1 DEF TwoTypesOK, blueVars, Blue!TypeOK, Blue!ExecutorTypeOK, Blue!Busy,
                Blue!HasRecord
<1> QED BY <1>1, <1>2, <1>3, <1>4 DEF Blue!TypeOK

-----------------------------------------------------------------------------
(* What one process does to the jobs, seen by the other.                   *)

\* A job the other process has claimed stays claimed.
LEMMA ClaimsKept ==
    ASSUME NEW j \in Jobs
    PROVE  /\ UNCHANGED greenVars /\ Green!Claimed(j) => Green!Claimed(j)'
           /\ UNCHANGED blueVars /\ Blue!Claimed(j) => Blue!Claimed(j)'
<1>1. UNCHANGED greenVars /\ Green!Claimed(j) => Green!Claimed(j)'
    BY DEF greenVars, Green!Claimed, Green!InHand, Green!Queued, Green!Held, Green!Busy
<1>2. UNCHANGED blueVars /\ Blue!Claimed(j) => Blue!Claimed(j)'
    BY DEF blueVars, Blue!Claimed, Blue!InHand, Blue!Queued, Blue!Held, Blue!Busy
<1> QED BY <1>1, <1>2

\* The steps a process that runs may take while nothing fails.
LEMMA BlueKeepsJobs ==
    ASSUME Blue!TypeOK, NothingFails, bMain = "running", Blue!Next,
           NEW j \in Jobs, Blue!Pending(j)', Blue!Pending(j) => Blue!Tracked(j)
    PROVE  Blue!Tracked(j)'
<1>1. Blue!NothingFails
    BY DEF NothingFails, Blue!NothingFails
<1>2. CASE Blue!Tick
    BY <1>2
       DEF Blue!Tick, Blue!storeVars, Blue!execVars, Blue!schedVars, Blue!Pending,
           Blue!Tracked, Blue!Stored, Blue!Scheduled, Blue!Claimed, Blue!InHand,
           Blue!Queued, Blue!Held, Blue!Busy
<1>3. CASE Blue!Scheduling
    BY <1>1, <1>3, Blue!SchedulerTracks, ParametersAssumption DEF Blue!Scheduling
<1>4. ASSUME NEW w \in Workers, Blue!Working(w)
      PROVE  Blue!Tracked(j)'
    BY <1>1, <1>4, Blue!WorkerTracks, ParametersAssumption DEF Blue!Working
<1>5. ASSUME NEW i \in Jobs, Blue!Creating(i) \/ Blue!Deleting(i)
      PROVE  Blue!Tracked(j)'
    BY <1>1, <1>5, Blue!HandlerTracks, ParametersAssumption DEF Blue!Creating, Blue!Deleting
<1>6. ~Blue!Signal /\ ~Blue!StopExecutor /\ ~Blue!Exit /\ ~Blue!Crash /\ ~Blue!Restart
    BY DEF NothingFails, Blue!Signal, Blue!StopExecutor, Blue!Exit, Blue!Crash, Blue!Restart
<1> QED BY <1>2, <1>3, <1>4, <1>5, <1>6 DEF Blue!Next

LEMMA GreenKeepsJobs ==
    ASSUME Green!TypeOK, NothingFails, gMain = "running", GreenStep,
           NEW j \in Jobs, Green!Pending(j)', Green!Pending(j) => Green!Tracked(j)
    PROVE  Green!Tracked(j)'
<1>1. Green!NothingFails
    BY DEF NothingFails, Green!NothingFails
<1>2. CASE Green!Scheduling
    BY <1>1, <1>2, Green!SchedulerTracks, GreenParameters DEF Green!Scheduling
<1>3. ASSUME NEW w \in Workers, Green!Working(w)
      PROVE  Green!Tracked(j)'
    BY <1>1, <1>3, Green!WorkerTracks, GreenParameters DEF Green!Working
<1>4. ASSUME NEW i \in Jobs, Green!Creating(i) \/ Green!Deleting(i)
      PROVE  Green!Tracked(j)'
    BY <1>1, <1>4, Green!HandlerTracks, GreenParameters
       DEF Green!Creating, Green!Deleting
<1> QED BY <1>2, <1>3, <1>4 DEF GreenStep

-----------------------------------------------------------------------------

TwoInv ==
    /\ TwoTypesOK
    /\ bMain = "running"
    /\ gMain \in {"exited", "running"}
    /\ NoJobIsLost

LEMMA TwoInit == Init => TwoTypesOK /\ NoJobIsLost
<1> SUFFICES ASSUME Init PROVE TwoTypesOK /\ NoJobIsLost
    OBVIOUS
<1>1. Blue!TypeOK
    BY Blue!TypeInit, ParametersAssumption DEF Init
<1>2. Green!TypeOK
    <2>1. Green!StoreTypeOK /\ Green!ExecutorTypeOK
        BY DEF Init, Blue!Init, Blue!StoreInit, Green!StoreTypeOK, Green!ExecutorInit,
               Green!ExecutorTypeOK, Green!WorkerPc, Green!Busy, Green!HasRecord
    <2>2. Green!ProcessTypeOK /\ Green!SchedulerTypeOK /\ Green!ApiTypeOK
        BY ParametersAssumption
           DEF Init, Blue!Init, Blue!ApiInit, Green!ProcessTypeOK, Green!MainPc,
               Green!SchedulerInit, Green!SchedulerTypeOK, Green!SchedPc, Green!ApiTypeOK
    <2> QED BY <2>1, <2>2 DEF Green!TypeOK
<1>3. NoJobIsLost
    BY DEF Init, Blue!Init, Blue!StoreInit, NoJobIsLost, Stored, Blue!Stored
<1> QED BY <1>1, <1>2, <1>3 DEF TwoTypesOK

LEMMA TwoTypesNext ==
    ASSUME TwoTypesOK, [Next]_<<sharedVars, blueVars, greenVars>>
    PROVE  TwoTypesOK'
<1>1. CASE BlueStep
    <2>1. Blue!TypeOK'
        BY <1>1, Blue!TypeNext, ParametersAssumption DEF BlueStep, TwoTypesOK
    <2> QED BY <1>1, <2>1, GreenKeepsType DEF BlueStep, TwoTypesOK
<1>2. CASE GreenStep
    <2>1. Green!Next
        BY <1>2 DEF GreenStep, Green!Next
    <2>2. Green!TypeOK'
        BY <2>1, Green!TypeNext, GreenParameters DEF TwoTypesOK
    <2> QED BY <1>2, <2>2, BlueKeepsType DEF GreenStep, TwoTypesOK
<1>3. CASE StartGreen \/ UNCHANGED <<sharedVars, blueVars, greenVars>>
    <2>1. UNCHANGED <<sharedVars, blueVars, gQueue, gPc, gJob, gRec, gSched, gPoll,
                      gBatch, gDeleting>>
        BY <1>3 DEF StartGreen, greenVars
    <2>2. gMain' = gMain \/ gMain' = "running"
        BY <1>3 DEF StartGreen, greenVars
    <2>3. Blue!TypeOK'
        BY <2>1
           DEF TwoTypesOK, sharedVars, blueVars, Blue!TypeOK, Blue!StoreTypeOK,
               Blue!ProcessTypeOK, Blue!ExecutorTypeOK, Blue!SchedulerTypeOK,
               Blue!ApiTypeOK, Blue!Busy, Blue!HasRecord
    <2>4. Green!ProcessTypeOK'
        BY <2>1, <2>2 DEF TwoTypesOK, sharedVars, Green!TypeOK, Green!ProcessTypeOK,
                          Green!MainPc
    <2>5. Green!TypeOK'
        BY <2>1, <2>4
           DEF TwoTypesOK, sharedVars, Green!TypeOK, Green!StoreTypeOK,
               Green!ExecutorTypeOK, Green!SchedulerTypeOK, Green!ApiTypeOK, Green!Busy,
               Green!HasRecord
    <2> QED BY <2>3, <2>5 DEF TwoTypesOK
<1> QED BY <1>1, <1>2, <1>3 DEF Next

LEMMA NothingLostNext ==
    ASSUME TwoInv, NothingFails, [Next]_<<sharedVars, blueVars, greenVars>>
    PROVE  NoJobIsLost'
<1> SUFFICES ASSUME NEW j \in Jobs, Blue!Pending(j)'
             PROVE  Blue!Scheduled(j)' \/ Blue!Claimed(j)' \/ Green!Claimed(j)'
    BY DEF NoJobIsLost, Tracked, Stored, Blue!Pending
<1>1. Blue!Pending(j) => Blue!Scheduled(j) \/ Blue!Claimed(j) \/ Green!Claimed(j)
    BY DEF TwoInv, NoJobIsLost, Tracked, Stored, Blue!Pending
<1>2. CASE BlueStep
    <2>1. CASE Green!Claimed(j)
        BY <1>2, <2>1, ClaimsKept DEF BlueStep
    <2>2. CASE ~Green!Claimed(j)
        <3>1. Blue!Tracked(j)'
            BY <1>1, <1>2, <2>2, BlueKeepsJobs
               DEF TwoInv, TwoTypesOK, BlueStep, Blue!Tracked
        <3> QED BY <3>1 DEF Blue!Tracked
    <2> QED BY <2>1, <2>2
<1>3. CASE GreenStep
    <2>1. CASE Blue!Claimed(j)
        BY <1>3, <2>1, ClaimsKept DEF GreenStep
    <2>2. CASE ~Blue!Claimed(j)
        <3>1. Green!Pending(j)' /\ (Green!Pending(j) => Green!Tracked(j))
            BY <1>1, <2>2
               DEF Blue!Pending, Green!Pending, Blue!Stored, Green!Stored, Green!Tracked,
                   Blue!Scheduled, Green!Scheduled
        <3>2. gMain = "running"
            BY <1>3 DEF GreenStep, TwoInv, Green!Scheduling, Green!Working,
                        Green!Creating, Green!Deleting, Green!Alive
        <3>3. Green!Tracked(j)'
            BY <1>3, <3>1, <3>2, GreenKeepsJobs DEF TwoInv, TwoTypesOK
        <3> QED BY <3>3 DEF Green!Tracked, Green!Scheduled, Blue!Scheduled
    <2> QED BY <2>1, <2>2
<1>4. CASE StartGreen \/ UNCHANGED <<sharedVars, blueVars, greenVars>>
    <2>1. UNCHANGED <<sharedVars, blueVars, gQueue, gPc, gJob, gSched, gBatch>>
        BY <1>4 DEF StartGreen, greenVars
    <2> QED BY <1>1, <2>1
            DEF sharedVars, blueVars, Blue!Pending, Blue!Stored, Blue!Scheduled,
                Blue!Claimed, Blue!InHand, Blue!Queued, Blue!Held, Blue!Busy,
                Green!Claimed, Green!InHand, Green!Queued, Green!Held, Green!Busy
<1> QED BY <1>2, <1>3, <1>4 DEF Next

\* Both processes are typed whatever fails and whatever happens to the old one:
\* neither puts anything into the store the other could not read.
THEOREM TwoTypesHold == Spec => []TwoTypesOK
<1>1. Init => TwoTypesOK
    BY TwoInit
<1>2. TwoTypesOK /\ [Next]_<<sharedVars, blueVars, greenVars>> => TwoTypesOK'
    BY TwoTypesNext
<1> QED BY <1>1, <1>2, PTL DEF Spec

\* While nothing fails and nobody stops, two processes that poll one schedule, run
\* one job twice and delete it under each other's feet never lose a pending one, for
\* any jobs and workers (scheduler.go:92, executor.go:281-286).
THEOREM TwoLoseNothing ==
    ASSUME NothingFails
    PROVE  Spec => []NoJobIsLost
<1>1. Init => TwoInv
    BY TwoInit DEF TwoInv, Init, Blue!Init
<1>2. TwoInv /\ [Next]_<<sharedVars, blueVars, greenVars>> => TwoInv'
    <2> SUFFICES ASSUME TwoInv, [Next]_<<sharedVars, blueVars, greenVars>>
                 PROVE  TwoInv'
        OBVIOUS
    <2>1. TwoTypesOK' /\ NoJobIsLost'
        BY TwoTypesNext, NothingLostNext DEF TwoInv
    <2>2. bMain' = "running" /\ gMain' \in {"exited", "running"}
        <3>1. CASE BlueStep
            BY <3>1
               DEF TwoInv, NothingFails, BlueStep, greenVars, Blue!Next, Blue!Tick,
                   Blue!Scheduling, Blue!Working, Blue!Creating, Blue!Deleting,
                   Blue!Signal, Blue!StopExecutor, Blue!Exit, Blue!Crash, Blue!Restart
        <3>2. CASE GreenStep
            BY <3>2 DEF TwoInv, GreenStep, blueVars, Green!Scheduling, Green!Working,
                        Green!Creating, Green!Deleting
        <3>3. CASE StartGreen \/ UNCHANGED <<sharedVars, blueVars, greenVars>>
            BY <3>3 DEF TwoInv, StartGreen, blueVars, greenVars
        <3> QED BY <3>1, <3>2, <3>3 DEF Next
    <2> QED BY <2>1, <2>2 DEF TwoInv
<1>3. TwoInv => NoJobIsLost
    BY DEF TwoInv
<1> QED BY <1>1, <1>2, <1>3, PTL DEF Spec
=============================================================================
