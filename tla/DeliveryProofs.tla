--------------------------- MODULE DeliveryProofs ---------------------------
(***************************************************************************)
(* TickHook together with receivers that keep the answer to a key: however *)
(* requests and answers are late, lost or repeated, the effects of a job   *)
(* are what the cache of its receiver says, and a worker's branch is the   *)
(* one of the answer it got.                                               *)
(***************************************************************************)
EXTENDS Delivery, ExecutionProofs

DeliveryTypeOK ==
    /\ open \in [Workers -> {NoRequest, Sent} \cup Answers]
    /\ BagToSet(late) \subseteq {<<j>> : j \in Jobs}
    /\ cache = [key \in DOMAIN cache |-> cache[key]]
    /\ effects = [j \in Jobs |-> effects[j]]

Success == 200 .. 299

\* A receiver knows of the effects of j, and of one at most.
EffectIsCached(j) ==
    \/ effects[j] = 0 /\ (<<j>> \in DOMAIN cache => cache[<<j>>] \notin Success)
    \/ effects[j] = 1 /\ <<j>> \in DOMAIN cache /\ cache[<<j>>] \in Success

\* The inductive invariant: nobody is told of a success that has not happened.
DeliveryInv ==
    /\ DeliveryTypeOK
    /\ \A j \in Jobs : EffectIsCached(j)
    /\ \A w \in Workers :
        /\ open[w] # NoRequest => Waits(w)
        /\ open[w] \in Success => effects[workerJob[w]] = 1
    /\ \A j \in succeeded : effects[j] = 1

LEMMA DeliveryInitInv == DeliveryInit => DeliveryInv
<1> SUFFICES ASSUME DeliveryInit
             PROVE  DeliveryInv
    OBVIOUS
<1>1. DeliveryTypeOK
    BY DEF DeliveryInit, DeliveryTypeOK, EmptyBag, SetToBag, BagToSet
<1>2. \A j \in Jobs : EffectIsCached(j)
    BY DEF DeliveryInit, EffectIsCached
<1>3. succeeded = {} /\ \A w \in Workers : open[w] = NoRequest
    BY DEF DeliveryInit, Init, ExecutorInit
<1> QED BY <1>1, <1>2, <1>3 DEF DeliveryInv, NoRequest, Success

\* A worker with an answer has the job it is about.
LEMMA AnsweredJob ==
    ASSUME TypeOK, DeliveryInv, NEW w \in Workers, open[w] \in Success
    PROVE  workerJob[w] \in Jobs
<1>1. Waits(w)
    BY DEF DeliveryInv, Success, NoRequest
<1> QED BY <1>1 DEF Waits, TypeOK, ExecutorTypeOK, Busy

-----------------------------------------------------------------------------

(* What the receivers do. *)

\* One request changes the effects of its own job only, and none for the second time.
LEMMA HandleKeeps ==
    ASSUME DeliveryInv, NEW j \in Jobs, NEW answer \in Answers, Handle(<<j>>, j, answer)
    PROVE  /\ cache' = [key \in DOMAIN cache' |-> cache'[key]]
           /\ effects' = [i \in Jobs |-> effects'[i]]
           /\ \A i \in Jobs : EffectIsCached(i)'
           /\ \A i \in Jobs : effects[i] = 1 => effects'[i] = 1
           /\ answer \in Success => effects'[j] = 1
<1> USE DEF DeliveryInv, DeliveryTypeOK, Success
<1>1. CASE <<j>> \in DOMAIN cache
    <2>1. UNCHANGED <<cache, effects>> /\ answer = cache[<<j>>]
        BY <1>1 DEF Handle
    <2>2. answer \in Success => effects[j] = 1
        BY <1>1, <2>1 DEF EffectIsCached
    <2> QED BY <2>1, <2>2 DEF EffectIsCached
<1>2. CASE <<j>> \notin DOMAIN cache
    <2>1. effects[j] = 0
        BY <1>2 DEF EffectIsCached
    <2>2. /\ effects' = IF answer \in Success THEN [effects EXCEPT ![j] = @ + 1] ELSE effects
          /\ cache' = IF answer \in Remembered THEN Remember(<<j>>, answer) ELSE cache
        BY <1>2 DEF Handle
    <2>3. answer \in Success => answer \in Remembered
        BY ReceiverAssumption
    <2>4. \A i \in Jobs \ {j} :
            /\ effects'[i] = effects[i]
            /\ <<i>> \in DOMAIN cache' <=> <<i>> \in DOMAIN cache
            /\ <<i>> \in DOMAIN cache => cache'[<<i>>] = cache[<<i>>]
        BY <2>2 DEF Remember
    <2>5. cache' = [key \in DOMAIN cache' |-> cache'[key]]
        BY <2>2 DEF Remember
    <2>6. effects' = [i \in Jobs |-> effects'[i]]
        BY <2>2
    <2>7. CASE answer \in Success
        <3>1. effects'[j] = 1 /\ <<j>> \in DOMAIN cache' /\ cache'[<<j>>] = answer
            BY <2>1, <2>2, <2>3, <2>7 DEF Remember
        <3>2. EffectIsCached(j)' /\ \A i \in Jobs \ {j} : EffectIsCached(i)'
            BY <2>4, <2>7, <3>1 DEF EffectIsCached
        <3> QED BY <2>1, <2>4, <2>5, <2>6, <3>1, <3>2
    <2>8. CASE answer \notin Success
        <3>1. effects'[j] = 0 /\ (<<j>> \in DOMAIN cache' => cache'[<<j>>] = answer)
            BY <1>2, <2>1, <2>2, <2>8 DEF Remember
        <3>2. EffectIsCached(j)' /\ \A i \in Jobs \ {j} : EffectIsCached(i)'
            BY <2>4, <2>8, <3>1 DEF EffectIsCached
        <3>3. ASSUME NEW i \in Jobs, effects[i] = 1
              PROVE  effects'[i] = 1
            <4>1. i # j
                BY <2>1, <3>3
            <4> QED BY <2>4, <3>3, <4>1
        <3> QED BY <2>5, <2>6, <2>8, <3>2, <3>3
    <2> QED BY <2>7, <2>8
<1> QED BY <1>1, <1>2

LEMMA ReceiveInv ==
    ASSUME TypeOK, DeliveryInv, NEW w \in Workers, Receive(w)
    PROVE  DeliveryInv'
<1>1. PICK answer \in Answers :
        Handle(Key(w), workerJob[w], answer) /\ open' = [open EXCEPT ![w] = answer]
    BY DEF Receive
<1>2. Waits(w)
    BY DEF Receive, DeliveryInv, Sent, NoRequest
<1>3. PICK j \in Jobs : j = workerJob[w]
    BY <1>2 DEF Waits, TypeOK, ExecutorTypeOK, Busy
<1>4. UNCHANGED <<vars, late>> /\ Handle(<<j>>, j, answer)
    BY <1>1, <1>3 DEF Receive, Key
<1>5. UNCHANGED <<workerPc, workerJob, succeeded>>
    BY <1>4 DEF vars, execVars, historyVars
<1>6. /\ \A i \in Jobs : EffectIsCached(i)'
      /\ \A i \in Jobs : effects[i] = 1 => effects'[i] = 1
      /\ answer \in Success => effects'[j] = 1
    BY <1>4, HandleKeeps
<1>7. DeliveryTypeOK'
    BY <1>1, <1>4, HandleKeeps DEF DeliveryInv, DeliveryTypeOK
<1>8. ASSUME NEW v \in Workers
      PROVE  /\ open'[v] # NoRequest => Waits(v)'
             /\ open'[v] \in Success => effects'[workerJob'[v]] = 1
    <2>1. CASE v = w
        BY <1>1, <1>2, <1>3, <1>5, <1>6, <2>1 DEF DeliveryInv, DeliveryTypeOK, Waits
    <2>2. CASE v # w
        <3>1. open'[v] = open[v]
            BY <1>1, <2>2 DEF DeliveryInv, DeliveryTypeOK
        <3>2. open[v] \in Success => workerJob[v] \in Jobs
            BY AnsweredJob
        <3> QED BY <1>5, <1>6, <3>1, <3>2 DEF DeliveryInv, Waits
    <2> QED BY <2>1, <2>2
<1>9. \A i \in succeeded' : effects'[i] = 1
    BY <1>5, <1>6 DEF DeliveryInv, TypeOK, ExecutorTypeOK
<1> QED BY <1>6, <1>7, <1>8, <1>9 DEF DeliveryInv

LEMMA ReceiveLateInv ==
    ASSUME TypeOK, DeliveryInv, NEW key \in BagToSet(late), ReceiveLate(key)
    PROVE  DeliveryInv'
<1>1. PICK j \in Jobs : key = <<j>>
    BY DEF DeliveryInv, DeliveryTypeOK
<1>2. PICK answer \in Answers : Handle(<<j>>, j, answer)
    BY <1>1 DEF ReceiveLate
<1>3. UNCHANGED <<vars, open>> /\ late' = late (-) SetToBag({key})
    BY DEF ReceiveLate
<1>4. UNCHANGED <<workerPc, workerJob, succeeded>>
    BY <1>3 DEF vars, execVars, historyVars
<1>5. BagToSet(late') \subseteq BagToSet(late)
    BY <1>3 DEF BagToSet, (-)
<1>6. DeliveryTypeOK'
    BY <1>2, <1>3, <1>5, HandleKeeps DEF DeliveryInv, DeliveryTypeOK
<1>7. /\ \A i \in Jobs : EffectIsCached(i)'
      /\ \A i \in Jobs : effects[i] = 1 => effects'[i] = 1
    BY <1>2, HandleKeeps
<1>8. ASSUME NEW v \in Workers
      PROVE  /\ open'[v] # NoRequest => Waits(v)'
             /\ open'[v] \in Success => effects'[workerJob'[v]] = 1
    <2>1. open[v] \in Success => workerJob[v] \in Jobs
        BY AnsweredJob
    <2> QED BY <1>3, <1>4, <1>7, <2>1 DEF DeliveryInv, Waits
<1>9. \A i \in succeeded' : effects'[i] = 1
    BY <1>4, <1>7 DEF DeliveryInv, TypeOK, ExecutorTypeOK
<1> QED BY <1>6, <1>7, <1>8, <1>9 DEF DeliveryInv

-----------------------------------------------------------------------------

(* What TickHook does. *)

\* While a request is under way its worker keeps the job, and a job succeeds by the
\* answer to its request only.
LEMMA RequestsInNext ==
    ASSUME TypeOK, Next
    PROVE  /\ \A w \in Workers : Waits(w) /\ Waits(w)' => workerJob'[w] = workerJob[w]
           /\ \A j \in succeeded' \ succeeded :
                \E w \in Workers : WorkerSucceeds(w) /\ workerJob[w] = j
<1> USE DEF TypeOK, ExecutorTypeOK
<1>1. CASE Tick \/ Scheduling \/ Signal \/ StopExecutor \/ Restart
    <2>1. UNCHANGED <<workerPc, workerJob, succeeded>>
        BY <1>1 DEF Tick, Scheduling, Signal, StopExecutor, Restart, execVars, historyVars,
                    SchedulerStep, PollStart, PollFetch, PollRemove, PollDispatch, SchedulerExit
    <2> QED BY <2>1
<1>2. CASE \E j \in Jobs : Creating(j) \/ Deleting(j)
    <2>1. UNCHANGED <<workerPc, workerJob, succeeded>>
        BY <1>2 DEF Creating, Deleting, execVars, historyVars
    <2> QED BY <2>1
<1>3. CASE Exit \/ Crash
    <2>1. UNCHANGED succeeded /\ workerPc' = [w \in Workers |-> "idle"]
        BY <1>3 DEF Exit, Crash, ProcessGone, ExecutorFresh, historyVars
    <2> QED BY <2>1 DEF Waits
<1>4. ASSUME NEW w \in Workers, Working(w)
      PROVE  /\ \A v \in Workers : Waits(v) /\ Waits(v)' => workerJob'[v] = workerJob[v]
             /\ \A j \in succeeded' \ succeeded :
                    \E v \in Workers : WorkerSucceeds(v) /\ workerJob[v] = j
    <2>1. \A v \in Workers \ {w} :
            workerPc'[v] = workerPc[v] /\ workerJob'[v] = workerJob[v]
        BY <1>4 DEF Working, WorkerStep, WorkerTake, WorkerExit, WorkerLoad, WorkerAbandon,
                    WorkerFire, WorkerSucceeds, WorkerRefused, WorkerFails, WorkerDelete,
                    WorkerUpdate, WorkerReschedule, Goto, Release
    <2>2. Waits(w) => ~Waits(w)'
        BY <1>4 DEF Working, WorkerStep, WorkerTake, WorkerExit, WorkerLoad, WorkerAbandon,
                    WorkerFire, WorkerSucceeds, WorkerRefused, WorkerFails, WorkerDelete,
                    WorkerUpdate, WorkerReschedule, Goto, Waits
    <2>3. CASE WorkerSucceeds(w)
        <3>1. succeeded' \subseteq succeeded \cup {workerJob[w]}
            BY <2>3 DEF WorkerSucceeds
        <3> QED BY <2>1, <2>2, <2>3, <3>1
    <2>4. CASE ~WorkerSucceeds(w)
        <3>1. UNCHANGED succeeded
            BY <1>4, <2>4 DEF Working, WorkerStep, WorkerTake, WorkerExit, WorkerLoad,
                    WorkerAbandon, WorkerFire, WorkerRefused, WorkerFails, WorkerDelete,
                    WorkerUpdate, WorkerReschedule, historyVars
        <3> QED BY <2>1, <2>2, <3>1
    <2> QED BY <2>3, <2>4
<1> QED BY <1>1, <1>2, <1>3, <1>4 DEF Next

LEMMA SendInv ==
    ASSUME TypeOK, DeliveryInv, Send
    PROVE  DeliveryInv'
<1>1. /\ Next /\ UNCHANGED <<cache, effects>>
      /\ late' = late (+) SetToBag({Key(w) : w \in GivenUp})
      /\ open' = [w \in Workers |-> CASE ~Waits(w)' -> NoRequest
                                      [] Waits(w)' /\ ~Waits(w) -> Sent
                                      [] OTHER -> open[w]]
    BY DEF Send
<1>2. /\ \A w \in Workers : Waits(w) /\ Waits(w)' => workerJob'[w] = workerJob[w]
      /\ \A j \in succeeded' \ succeeded :
            \E w \in Workers : WorkerSucceeds(w) /\ workerJob[w] = j
    BY <1>1, RequestsInNext
<1>3. \A w \in Workers :
        \/ ~Waits(w)' /\ open'[w] = NoRequest
        \/ Waits(w)' /\ ~Waits(w) /\ open'[w] = Sent
        \/ Waits(w)' /\ Waits(w) /\ open'[w] = open[w]
    BY <1>1
<1>4. DeliveryTypeOK'
    <2>1. open' \in [Workers -> {NoRequest, Sent} \cup Answers]
        BY <1>1, <1>3 DEF DeliveryInv, DeliveryTypeOK
    <2>2. \A w \in GivenUp : Key(w) \in {<<j>> : j \in Jobs}
        <3>1. \A w \in GivenUp : w \in Workers /\ Waits(w)
            BY DEF GivenUp, DeliveryInv, Sent, NoRequest
        <3> QED BY <3>1 DEF Key, Waits, TypeOK, ExecutorTypeOK, Busy
    <2>3. BagToSet(late') \subseteq BagToSet(late) \cup {Key(w) : w \in GivenUp}
        BY <1>1 DEF BagToSet, SetToBag, (+)
    <2>4. BagToSet(late') \subseteq {<<j>> : j \in Jobs}
        BY <2>2, <2>3 DEF DeliveryInv, DeliveryTypeOK
    <2> QED BY <1>1, <2>1, <2>4 DEF DeliveryInv, DeliveryTypeOK
<1>5. \A j \in Jobs : EffectIsCached(j)'
    BY <1>1 DEF DeliveryInv, EffectIsCached
<1>6. ASSUME NEW w \in Workers
      PROVE  /\ open'[w] # NoRequest => Waits(w)'
             /\ open'[w] \in Success => effects'[workerJob'[w]] = 1
    BY <1>1, <1>2, <1>3 DEF DeliveryInv, Success, NoRequest, Sent
<1>7. ASSUME NEW j \in succeeded'
      PROVE  effects'[j] = 1
    <2>1. CASE j \in succeeded
        BY <1>1, <2>1 DEF DeliveryInv
    <2>2. CASE j \notin succeeded
        <3>1. PICK w \in Workers : WorkerSucceeds(w) /\ workerJob[w] = j
            BY <1>2, <1>7, <2>2
        <3>2. open[w] \in Success
            BY <3>1 DEF Send, IsSuccessHTTPStatus, Success
        <3> QED BY <1>1, <3>1, <3>2 DEF DeliveryInv
    <2> QED BY <2>1, <2>2
<1> QED BY <1>4, <1>5, <1>6, <1>7 DEF DeliveryInv

-----------------------------------------------------------------------------

LEMMA DeliveryStep ==
    ASSUME TypeOK, DeliveryInv, [DeliveryNext]_<<vars, deliveryVars>>
    PROVE  DeliveryInv'
<1>1. CASE UNCHANGED <<vars, deliveryVars>>
    <2>1. UNCHANGED <<workerPc, workerJob, succeeded, open, late, cache, effects>>
        BY <1>1 DEF vars, execVars, historyVars, deliveryVars
    <2> QED BY <2>1 DEF DeliveryInv, DeliveryTypeOK, EffectIsCached, Waits
<1> QED BY <1>1, SendInv, ReceiveInv, ReceiveLateInv DEF DeliveryNext

\* The receivers only choose among what TickHook does anyway, so all that is proved of
\* it holds beside them (executor.go:142-166).
THEOREM DeliveryIsTickHook == DeliverySpec => Spec
<1>1. DeliveryInit => Init
    BY DEF DeliveryInit
<1>2. [DeliveryNext]_<<vars, deliveryVars>> => [Next]_vars
    BY DEF DeliveryNext, Send, Receive, ReceiveLate
<1> QED BY <1>1, <1>2, PTL DEF DeliverySpec, Spec

\* The inductive invariant holds, whatever is late, lost or repeated.
THEOREM DeliveryHolds == DeliverySpec => []DeliveryInv
<1>1. TypeOK /\ DeliveryInv /\ [DeliveryNext]_<<vars, deliveryVars>> => DeliveryInv'
    BY DeliveryStep
<1>2. DeliverySpec => []TypeOK
    BY DeliveryIsTickHook, TypeCorrect, PTL
<1> QED BY <1>1, <1>2, DeliveryInitInv, PTL DEF DeliverySpec

\* A one-shot job has one effect when it succeeds and never two, for any receivers that
\* keep their 2xx answers and any retries, crashes and late requests (executor.go:200-206).
THEOREM EffectHappensOnce == DeliverySpec => []OneEffect
<1>1. TypeOK /\ DeliveryInv => OneEffect
    <2>1. DeliveryInv => \A j \in Jobs : effects[j] \in {0, 1}
        BY DEF DeliveryInv, EffectIsCached
    <2>2. DeliveryInv => \A j \in succeeded : effects[j] = 1
        BY DEF DeliveryInv
    <2> QED BY <2>1, <2>2 DEF OneEffect
<1> QED BY <1>1, DeliveryHolds, DeliveryIsTickHook, TypeCorrect, PTL

\* A worker that gives up with attempts left was refused: a failed attempt is the last
\* one only if it is max_attempts, since its copy counts the requests really sent.
LEMMA EarlyEndIsRefusal ==
    ASSUME TypeOK, ExecutionInv, NEW w \in Workers, Next, GivesUpEarly(w)
    PROVE  WorkerRefused(w) /\ ~WorkerFails(w)
<1>1. PICK j \in Jobs : j = workerJob[w]
    BY DEF GivesUpEarly, Waits, TypeOK, ExecutorTypeOK, Busy
<1>2. /\ workerPc[w] = "inflight" /\ workerPc'[w] = "update"
      /\ workerRec'[w].status = "failed" /\ tries[j] < Request[j].maxAttempts
    BY <1>1 DEF GivesUpEarly, Waits
<1>3. /\ workerRec[w] \in JobRecord /\ workerRec[w].status = "pending"
      /\ workerRec[w].attempt + 1 = tries[j]
    BY <1>1, <1>2 DEF ExecutionInv, WorkerInv, TypeOK, ExecutorTypeOK, HasRecord
<1>4. ~WorkerFails(w)
    <2> SUFFICES ASSUME WorkerFails(w)
                 PROVE  FALSE
        OBVIOUS
    <2>1. PICK rec \in AfterFailure(j, workerRec[w], now) : workerRec'[w] = rec
        BY <1>1 DEF WorkerFails, TypeOK, ExecutorTypeOK
    <2> DEFINE failed == [workerRec[w] EXCEPT !.attempt = @ + 1, !.lastError = "error"]
    <2>2. failed.attempt = tries[j] /\ failed.status = "pending"
        BY <1>3 DEF JobRecord
    <2>3. \/ failed.attempt >= Request[j].maxAttempts
          \/ \E d : rec = [failed EXCEPT !.due = d]
        BY <2>1 DEF AfterFailure
    <2>4. tries[j] \in Int /\ Request[j].maxAttempts \in Int
        BY RequestAssumption DEF ValidRequest, TypeOK, ExecutorTypeOK
    <2> HIDE DEF failed
    <2>5. \E d : rec = [failed EXCEPT !.due = d]
        BY <1>2, <2>2, <2>3, <2>4
    <2>6. rec.status = "pending"
        BY <2>2, <2>5
    <2> QED BY <1>2, <2>1, <2>6
<1>5. ~WorkerSucceeds(w)
    <2> SUFFICES ASSUME WorkerSucceeds(w)
                 PROVE  FALSE
        OBVIOUS
    <2>1. workerRec'[w] = AfterSuccess(j, workerRec[w])
        BY <1>1, <1>2 DEF WorkerSucceeds, Goto, TypeOK, ExecutorTypeOK
    <2>2. AfterSuccess(j, workerRec[w]).status = "pending"
        BY <1>3 DEF AfterSuccess, JobRecord
    <2> QED BY <1>2, <2>1, <2>2
<1>6. \E v \in Workers : Working(v)
    <2>1. workerPc' # workerPc
        BY <1>2
    <2>2. ~Tick /\ ~Scheduling /\ ~Signal /\ ~StopExecutor /\ ~Restart
        BY <2>1 DEF Tick, Scheduling, Signal, StopExecutor, Restart, execVars, SchedulerStep,
                    PollStart, PollFetch, PollRemove, PollDispatch, SchedulerExit
    <2>3. \A i \in Jobs : ~Creating(i) /\ ~Deleting(i)
        BY <2>1 DEF Creating, Deleting, execVars
    <2>4. ~Exit /\ ~Crash
        BY <1>2 DEF Exit, Crash, ProcessGone, ExecutorFresh
    <2> QED BY <2>2, <2>3, <2>4 DEF Next
<1>7. PICK v \in Workers : WorkerStep(v)
    BY <1>6 DEF Working
<1>8. v = w
    BY <1>2, <1>7
       DEF WorkerStep, WorkerTake, WorkerExit, WorkerLoad, WorkerAbandon, WorkerFire,
           WorkerSucceeds, WorkerRefused, WorkerFails, WorkerDelete, WorkerUpdate,
           WorkerReschedule, Goto, Release, TypeOK, ExecutorTypeOK
<1>9. WorkerSucceeds(w) \/ WorkerRefused(w) \/ WorkerFails(w)
    BY <1>2, <1>7, <1>8
       DEF WorkerStep, WorkerTake, WorkerExit, WorkerLoad, WorkerAbandon, WorkerFire,
           WorkerDelete, WorkerUpdate, WorkerReschedule
<1> QED BY <1>4, <1>5, <1>9

\* The documented table of answers is followed: only a 2xx makes a job succeed, and only
\* a 4xx other than 429 ends it early (executor.go:145-165, util.go:75-84).
THEOREM AnswersDecide == DeliverySpec => TableIsFollowed
<1> DEFINE Followed ==
        \A w \in Workers :
            /\ WorkerSucceeds(w) => open[w] \in 200 .. 299
            /\ GivesUpEarly(w) => open[w] \in 400 .. 428 \cup 430 .. 499
<1>1. ASSUME TypeOK, ExecutionInv, Send
      PROVE  Followed
    <2>1. ASSUME NEW w \in Workers, WorkerSucceeds(w)
          PROVE  open[w] \in 200 .. 299
        BY <1>1, <2>1 DEF Send, IsSuccessHTTPStatus
    <2>2. ASSUME NEW w \in Workers, GivesUpEarly(w)
          PROVE  open[w] \in 400 .. 428 \cup 430 .. 499
        <3>1. WorkerRefused(w) /\ ~WorkerFails(w)
            BY <1>1, <2>2, EarlyEndIsRefusal DEF Send
        <3>2. IsClientErrorHTTPStatus(open[w])
            BY <1>1, <3>1 DEF Send
        <3> QED BY <3>2 DEF IsClientErrorHTTPStatus
    <2> QED BY <2>1, <2>2
<1>2. TypeOK /\ ExecutionInv /\ [DeliveryNext]_<<vars, deliveryVars>> => [Followed]_vars
    <2>1. (\E w \in Workers : Receive(w)) \/ (\E key \in BagToSet(late) : ReceiveLate(key))
            => UNCHANGED vars
        BY DEF Receive, ReceiveLate
    <2>2. UNCHANGED <<vars, deliveryVars>> => UNCHANGED vars
        OBVIOUS
    <2> QED BY <1>1, <2>1, <2>2 DEF DeliveryNext
<1> QED BY <1>2, DeliveryIsTickHook, ExecutionHolds, PTL DEF DeliverySpec, TableIsFollowed
=============================================================================
