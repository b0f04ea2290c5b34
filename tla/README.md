# TickHook in TLA+

TickHook is a webhook scheduler: an HTTP API stores one-shot and recurring jobs
in Redis, a scheduler polls for the due ones, and a pool of workers sends their
webhooks, retries and reschedules. This directory holds TLA+ modules of that
system, the TLC configurations that check them, and TLAPS proofs. Paths below are
relative to the repository.

## 1. Inventory

| Component | State | Operations | Correct when |
|---|---|---|---|
| Job model (`internal/model/job.go`) | the job record | validation, `NewOneShotJob`, `NewRecurringJob` | a stored job can be run: attempts and intervals are positive |
| Utilities (`internal/util/util.go`) | none | `CalculateBackoff`, status classes, `ExtractDomain` | delays are bounded, every status has one class |
| Store (`internal/store/redis.go`) | job hashes, schedule ZSET | create, get, update, delete, due jobs, remove from and add to schedule | a scheduled job's score is its due time |
| Scheduler (`internal/scheduler/scheduler.go`) | the batch of the running poll | poll, stop | due jobs leave the schedule, never early, never twice |
| Executor (`internal/executor/executor.go`) | queue, workers, semaphores | dispatch, execute, three outcome handlers, stop | one execution per job at a time, at most `max_attempts` tries, every claim ends |
| HTTP handlers (`internal/httpapi/handlers.go`) | none of their own | create, get, delete, health | an answer says what was done |
| Server, middleware (`internal/httpapi`) | none | routing, token, `Server` header, log | nothing changes without the token |
| Process (`cmd/tickhook/main.go`) | signal context, shutdown sequence | start, signal, stop in order | it comes up whole or ends; shutdown ends if what is left fits the queue |
| Configuration (`internal/config`) | constants | parse, range checks | what is accepted can be run |
| Webhook receivers (external) | answers kept per `Idempotency-Key` | handle a request | one effect per one-shot job |

Everything runs in goroutines of one process over one Redis. The scheduler hands
job IDs to the workers through a buffered channel; workers, scheduler and handlers
meet otherwise only in Redis, where each command or MULTI is atomic but no two of
them are. The hard behaviours: DELETE racing with a worker; the pairs UpdateJob +
AddToSchedule and ZREM + dispatch interrupted by errors, lost replies or a crash;
cancellation of the one context everything shares; back-pressure from a full queue
and from the per-domain limit; a map of semaphores filled on demand; arithmetic on
client-supplied milliseconds at the ends of int64 and float64. `PROJECT.json` lists
these hazards line by line, with the properties that are about each.

## 2. Modules

`A <- B` reads "B EXTENDS A", `A <= B` "B takes an INSTANCE of A".

```
JobModel <- RedisStore <- Process <- Executor <- Scheduler <- TickHook
                             ^------- HttpApi <------------------'
TickHook <- LifecycleRefinement <- MCTickHook        JobLifecycle <= LifecycleRefinement
TickHook <- Delivery <- MCDelivery                   DomainLimiter <= DomainSemaphores
FixedWidth <- Backoff <- DueTimeArithmetic           JobModel <= DueTimeArithmetic, HttpServer
FixedWidth <- Durations <- Payload <- MCPayload      HttpServer <- MCHttpServer
              Durations <- Startup <- MCStartup      TickHookProofs <= TwoProcesses <- MCTwoProcesses

TickHook <- TickHookProofs <- ExecutionProofs        HttpServer <- HttpServerProofs
LifecycleRefinement, ExecutionProofs <- LifecycleProofs
Delivery, ExecutionProofs <- DeliveryProofs          DomainSemaphores <- DomainSemaphoresProofs
TwoProcesses <- TwoProcessesProofs
DueTimeArithmetic, Startup, Payload <- ArithmeticProofs
```

The core, composed in one state machine:

- **JobModel**: the mutable part of a job record and what each outcome does to it.
  The immutable part is the request it was created from (`Request[j]`), whose
  `ValidRequest` is an assumption on the constants; HttpServer checks that what
  the API lets through satisfies it. `lastError` stands for `last_error` and
  `last_http_code`; `updated_at_ms` decides nothing and is left out.
- **RedisStore**: hashes (`jobs`) and ZSET (`schedule`). A write is `ok`, `rejected`
  (nothing written, caller sees an error) or `unacked` (written, caller sees an
  error). `HSet` keeps what `serializeJob` leaves out of the map. **Every command is assumed to
  act at most once.** The client does not guarantee that: `NewRedisStore` leaves
  `MaxRetries` of go-redis v9.7.0 at its default of 3 (`redis.go:28-33`), so a command whose
  reply is lost is sent again, and a ZADD, ZREM or HSET that has acted may act a second
  time, after another goroutine or process has acted on the same job. All properties and
  theorems (`SingleOwner` first of all) hold under this assumption, which
  `MaxRetries = -1`, or a `max_retries=-1` in the Redis URL, would make true.
- **Process**: clock, `mainPc` (where `run()` stands) and what a cancelled context
  does: from the signal on, every store call of scheduler and workers is rejected.
- **Executor**: the queue and a program counter per worker; one action per store
  call and per outcome of the webhook. There are as many global slots as workers,
  so a worker never waits for one; the domain limit counts workers past the
  semaphore. `tries` and `succeeded` are history variables, read by properties only.
- **Scheduler**: one action per store call and per dispatch of a poll.
- **HttpApi**: creation with a fresh ID, and DELETE as its two store calls.
- **TickHook**: all of it interleaved, with signal, ordered shutdown, crash, restart.
- **JobLifecycle**: the abstract specification. Each job is `unknown`, `scheduled`,
  `claimed`, `firing`, `settling` or `over`, with a due time; no store, queue or
  worker. **LifecycleRefinement** reads that phase off the state of TickHook (`Life`)
  and states `ImplementsLifecycle`. A job is over as soon as nothing is left that
  could run it, even while an orphaned record or member of the schedule remains.

Parts the core takes as simpler than they are, each examined in a module of its own:

- **DomainSemaphores**: `getDomainSemaphore` with its RWMutex, the double-checked map
  and the buffered channels. **DomainLimiter** is what Executor assumes of it: a count
  per domain that never exceeds the limit.
- **FixedWidth**: w-bit integers and floats with a p-bit significand. **Durations**:
  milliseconds as an int64 of nanoseconds. **Backoff**:
  `CalculateBackoff` as the float computation it is, with infinity and conversions.
  **DueTimeArithmetic**: a recurring job's due time and its float64 score over many
  runs and retries. The core computes all of this with unbounded integers.
- **Delivery**: the core together with receivers that deduplicate by
  `Idempotency-Key`, and with late requests and answers; the status of an answer
  decides the worker's branch, which the core leaves open.
- **TwoProcesses**: two copies of the core over one Redis, as in a blue-green upgrade. They
  are instances of TickHookProofs, so that what is proved of one process can be cited of each.
- **Payload**: what becomes of a webhook's body, headers and timeout from POST to the
  request, over any number of stores and loads; the three passes in which `doWebhook` sets
  headers, each replacing what the ones before it set.
- **HttpServer**: middleware order, routes, decoding, validation and answers.
- **Startup**: `run()` from the flags to the point where the core takes over, and the
  beginning of the shutdown; how that goes on is the core's subject.

Abstractions in the core. The answer of a webhook (2xx, a final 4xx, anything else) is
nondeterministic; its timeout is the third case. Due times are small integers of
an unbounded clock unit. A request whose context is already cancelled is not sent,
and its failure cannot be stored, so that step is the same as giving up the domain
slot. `stopCh` of the executor and the closed `jobQueue` add nothing: both are closed
after `ctx` is cancelled and the scheduler has returned. `ExtractDomain` cannot fail
on a URL that passed validation.

## 3. Properties and runs

`PROJECT.json` names the properties of each run; each is stated in a comment above
its definition.

| Run | Shows | Distinct states |
|---|---|---|
| `faults` | all safety of execution, and the refinement of JobLifecycle, under failed and unacknowledged store calls, deletes, shutdowns, crashes and restarts | 557 000 |
| `liveness` | nothing failing, no pending job is lost track of; due jobs are sent, retries and next runs included, past the batch limit, a full queue and a busy worker; claims end; a signalled process exits if the rest of the batch fits the queue | 162 000 |
| `semaphores` | one channel per domain, no concurrent map access, the refinement of DomainLimiter, and every worker gets its lock and slot | 24 000 |
| `dueTimes` | the float score never hides or advances a due time; intervals and backoff are exact | 94 000 |
| `delivery` | with deduplicating receivers a one-shot job has one effect; the documented table of answers decides what ends a job | 92 000 |
| `twoProcesses` | two processes may run a job twice, but lose none | 1 054 000 |
| `payload` | the request is what the client gave, and carries the job's ID; what is stored of it does not change | 59 000 |
| `httpServer` | the store is changed by the connection with an authorized, valid request, as it says; answers are true | 72 000 |
| `startup` | a process that runs has sound limits; one that cannot listen begins its shutdown | 33 000 |

### Bounds

- *Core.* One one-shot and one recurring job on one domain, each retried once
  (`MCMixedPair`), are enough for every race of a job with itself and of two jobs for
  a slot. Two workers in `faults`, since double execution needs two. `liveness` has a
  third job and one worker, hence a queue of two: enough to fill it and block the
  scheduler. `MaxNow` 2 lets the recurring job run twice and a retry become due.
  `Batch` is 2: all the jobs of `faults`, but not those of `liveness`, where a poll that
  finds three must leave one for the next. With one worker no domain slot is ever
  contended; that a worker waiting for one gets it is `DomainIsEntered` of `semaphores`.
  `MaxBackoffMs` is 1 there: the cap is `dueTimes`' subject. At most one DELETE of a
  job is under way. `Environment` and `StoreFaults` switch failures on; `liveness` has
  neither store failures nor deletes nor crashes, because a lost write may lose a job.
- *Semaphores.* Three workers for two readers and a writer, or two writers and a
  reader; two domains, so that channels could be confused; two slots of a domain for
  three workers.
- *DueTimeArithmetic.* 8-bit integers, floats of 5 bits up to 2^9, so that every due
  time of the type is a start, scores are rounded above 32, and 2^(attempt-1) overflows
  both. Intervals of 1, an odd one, one beyond the exact floats (33), and the two
  longest that cannot overflow (95 and 96, which is 2^7 - 2^5 where the real one is
  2^63 - 2^53); bases within and beyond the exact floats; 14 attempts reach infinity.
- *Delivery.* One job, three attempts, the ends of every status class and 429, two
  workers, all failures of the core.
- *TwoProcesses.* One job, retried once, one worker each, deletes, no failures: the
  property is about what the processes do to each other.
- *Payload.* Every set of four header names in two spellings; bodies missing, empty,
  and with numbers on both sides of the exact floats and rounded to the end of a binade; timeouts on both sides of the
  longest `Duration`.
- *HttpServer.* Two connections, two IDs; every route, token and single defect of a
  body. *Startup.* Every combination of the flags' values in `MCInts`: negative, zero,
  one, and too large once doubled or converted to nanoseconds.

Symmetry is used of workers (`faults`, `delivery`) and connections (`httpServer`),
never with a liveness property. `CHECK_DEADLOCK FALSE` appears where the system may
really stop: in `liveness` (a process that has exited, and the first disagreement
below), `cancelStuck`, and `startup` (a process that has exited).

### Fairness

`Fairness` in TickHook: the Go runtime runs every goroutine that can run, so scheduler,
workers and shutdown steps are weakly fair. A webhook ends because `doWebhook` gives
it a deadline (`executor.go:180-182`). Sends blocked on a channel are served in order,
hence strong fairness for taking a domain slot; `select` chooses at random among ready
cases, hence strong fairness for the scheduler's exit. DomainSemaphores: the same, and
`sync.RWMutex` lets the waiting readers in after each writer and passes its inner mutex
on to long waiters, hence strong fairness for `RLock` and for announcing a writer.
Startup: up to the end of the signal context `run()` waits for nothing else, and then the
shutdown begins. Nothing is assumed of its end (`EndShutdown`), because `sched.Wait()` may
never return (`cancelStuck`). Clients, signals
and crashes are never obliged to happen.

Every property of a passing run has a mutant, an operator that makes a plausible slip
in a modelled definition and breaks exactly that property's promise.

## 4. Disagreements

### Shown by a run

| Run | The documentation says | The program does |
|---|---|---|
| `cancelStuck` | not stopping after a cancel is an error (`scheduler_test.go:169`) | `Dispatch` does not watch `ctx`: with a full queue and no worker left, scheduler and `run()` wait for each other |
| `shutdownLoses` | shutdown "waits for in-flight jobs to complete" (`main.go:104`), jobs survive restarts (`README.md:312`) | the signal cancels the workers' context: queued and running jobs stay pending but unscheduled |
| `deleteUndone` | DELETE "Cannot be undone" (`API.md:341`) | a worker's UpdateJob recreates the hash and reschedules |

### Read off the modelled code

These follow from a single definition of the model, so no run is spent on them.

| The documentation says | The program does | Where |
|---|---|---|
| DELETE: "Cancel and remove" (`API.md:314`) | a worker waiting for its domain slot still sends the webhook | `Executor!WorkerFire`; `executor.go:131` |
| recurring "always schedules next run" (`README.md:210`) | not after the last attempt or a final 4xx | `JobModel`; `executor.go:264, 299` |
| next run "from the previous `due_at`" (`API.md:237`) | a retry overwrites `due_at`, and the grid of `start_at` is left | `JobLifecycle!Fail`; `executor.go:279` |
| last error "(if failed)" (`INTERNALS.md:48`) | the error and the status code survive a success, because HSET merges | `RedisStore!HSet`; `redis.go:201-206` |
| a job is lost only "if the process dies" (`README.md:322`) | also when the reply to a ZREM is lost, or UpdateJob fails after a webhook | `Scheduler!PollRemove`; `scheduler.go:92`, `executor.go:242` |
| jitter, "capped at 10 minutes" (`README.md:214`) | the jitter comes on top of the cap | `Backoff!CalculateBackoff`; `util.go:51` |
| "Retryable error (5xx or 429)" (`executor.go:163`) | 1xx and 3xx are retried as well | `Delivery!IsClientErrorHTTPStatus` |
| return the cached response for a duplicate key (`API.md:459`) | all runs of a recurring job have one key, so such a receiver handles the first only | `Delivery!Key`; `executor.go:203` |
| "One future execution at a time" (`PRD.md:138`), start the new version, then stop the old (`DEPLOYMENT.md:738-748`) | neither process looks at what its ZREM removed: both may run a job | `Scheduler!PollRemove`; `scheduler.go:92` |
| "The exact JSON body" (`README.md:152`) | integers beyond 2^53 are rounded | `Payload!DecodeJSON`; `job.go:64` |
| headers that "cannot be overridden" (`README.md:156-162`) | `Content-Type` can | `Payload!Header`; `executor.go:191-198` |
| all responses include `Server`, the 401 too (`API.md:44-47, 66-70`) | the 401 is written before that header is set | `HttpServer!Reject`; `server.go:34-38` |
| all responses are JSON, all errors of one format (`API.md:71, 75`) | 404 and 405 of the router are plain text | `HttpServer!NotRouted` |
| both `retry` fields have defaults (`API.md:168-169`) | a `retry` with one of them is refused | `HttpServer!RetryValid`; `job.go:143-152` |
| `webhook.body` is "Any" (`API.md:165`) | only objects decode | `HttpServer!Decodes`; `job.go:64` |

At the ends of int64, where no document says anything: a job's interval of more than
2^63 - 2^53 ms makes its next due time negative (`executor.go:234`), a `timeout_ms` of
more than 2^63 ns becomes another one or a deadline in the past (`executor.go:181`), and a
`--poll-ms` that large another one or a panic at the start (`scheduler.go:44`), as does a
`--max-inflight` of 2^62 (`executor.go:45`).

## 5. Proofs

All for arbitrary values of the constants, from the assumptions the modules name: finite
sets of jobs and workers, requests that passed validation (`RequestAssumption`), positive
limits, an `Absent` that is no value, numbers in requests that are integers
(`RequestsAssumption`), in bodies of at most 2^`IntBits` (`PayloadAssumption`; the rounding
of larger ones is not defined). Failures are not assumed away: `StoreFaults` and `Environment` are
any subsets of what they may hold. Four theorems have a hypothesis of their own, because
what they state is false without it:

- `PendingStaysTracked` and `TwoLoseNothing`: no store call fails and no process is
  restarted (in the second, stopped); otherwise jobs are lost, as section 4 says.
- `IntervalsDoNotWrap`: intervals up to 2^63 - 2^53 ms, the longest for which
  `now + interval` fits an int64 (section 4).
- `RetriesAreExact`: the clock's 2^53, the cap and the jitter together fit an int64, which
  600000 and 1000 ms do.

`PowersDouble(n)`, assumed in FixedWidth and DueTimeArithmetic, says that 2^(k+1) is twice
2^k for the exponents in use. It is a law of arithmetic and not of the program: the provers
know nothing of `^`, and TLC evaluates the assumption in every run.

| Module | Theorem | States |
|---|---|---|
| TickHookProofs | `TypeCorrect` | `Spec => []TypeOK` |
| | `OwnershipHolds`, `OneExecutionAtATime` | `[]Ownership`, hence `[]SingleOwner` |
| | `ScoreIsDueTime` | `[]ScheduleMatchesRecord` |
| | `PendingStaysTracked` | without store failures and restarts, `[]PendingIsTracked` |
| ExecutionProofs | `ExecutionHolds` | the inductive invariant of the next five |
| | `WebhooksAreOnTime` | `[]NeverEarly` |
| | `NoAttemptIsLost` | `[]AttemptsCounted` |
| | `NoAttemptTooMany` | `[]AttemptsBounded` |
| | `SuccessIsFinal` | `[]NoFireAfterSuccess` |
| | `FailureIsFinal` | `[]FailedIsRetired` |
| LifecycleProofs | `LifecycleImplemented` | `Spec => ImplementsLifecycle` |
| DeliveryProofs | `DeliveryIsTickHook` | `DeliverySpec => Spec` |
| | `DeliveryHolds`, `EffectHappensOnce` | `[]DeliveryInv`, hence `[]OneEffect` |
| | `AnswersDecide` | `DeliverySpec => TableIsFollowed` |
| TwoProcessesProofs | `TwoTypesHold` | both processes keep `TypeOK` |
| | `TwoLoseNothing` | without failures, `[]NoJobIsLost` |
| HttpServerProofs | `HttpHolds` | the inductive invariant of the next three |
| | `OnlyValidJobsAreStored` | `[]StoredJobsAreValid` |
| | `NoAnswerLies` | `[]AnswersAreTrue` |
| | `TokenGuardsTheStore` | `Spec => ChangesAreAuthorized` |
| DomainSemaphoresProofs | `SemaphoresConsistent` | `[]SemInv` |
| | `SemaphoreTypes`, `MapIsNeverRaced` | `[]TypeOK`, `[]MapAccessIsExclusive` |
| | `LimiterImplemented` | `Spec => ImplementsLimiter` |
| ArithmeticProofs | `DueTimeInvHolds`, `PollSeesWhatIsDue` | `[]DueTimeInv`, hence `[]FoundWhenDue` |
| | `IntervalsDoNotWrap`, `RetriesAreExact` | `IntervalIsKept`, `BackoffIsExact` |
| | `LimitsAreSound` | `[]RunningIsSound` of Startup |
| | `PayloadInvHolds`, `WebhookIsAsGiven` | `[]PayloadInv`, hence `[]RequestIsAsGiven` of Payload |
| | `StoredWebhookStays` | `PayloadSpec => StoredWebhookIsStable` |

*Ownership.* `SingleOwner` alone is not inductive: the poll that fetches a job must know
that no worker has it, which holds because what is claimed is not scheduled; the batch must
not repeat a job, which holds because ZRANGEBYSCORE returns members of a set; and a new job
must be nobody's, which holds because its ID is fresh. `Ownership` says all of this. Most
steps only let go of jobs (`OwnershipKept`); the four that move one between schedule, batch,
queue and worker have a lemma each.

*Scores.* `ScheduleMatchesRecord` needs in addition that a worker between UpdateJob and
AddToSchedule has stored what it is about to schedule (`RescheduleMatchesRecord`), and
`Ownership`, so that nobody else writes that job.

*Execution.* `ExecutionInv` has three parts. For each job (`JobInv`): as long as anybody
could still run it, its record is pending, counts the requests really sent, and has attempts
left; and no more than `max_attempts` were sent. For each worker (`WorkerInv`): its copy of
the record agrees with that count at each point of its program, and is due. And the time of a
poll is not in the future. `Ownership` is what makes it inductive: the copy of one worker
stays true only because no other worker or poll can touch that job. A step that leaves store
and workers alone is covered by `ExecutionKept`.

*Refinement.* Each step of TickHook is a step of one job's lifecycle, of several (a process
that dies loses all it had claimed), or of none. `LivesHold` computes the phase of a job from
who has it, `LifeKept` says when it does not change, and each action has a lemma that names
the abstract step. Two facts beyond the earlier invariants are needed: `Ownership'`, so that
the holder of a job is unique in the next state too, and `BatchScheduled`: a stored job of the
batch is scheduled until it is in the scheduler's hand, so that it is claimed by its ZREM.

*Tracking.* `NothingFails` excludes exactly what loses a job by design or by a disagreement
above: failed or unacknowledged store calls, and a restart after a crash or a shutdown.
Deletes, every answer of a webhook and the signal are allowed. `PendingIsTracked` is then
inductive beside `TypeOK`; the steps to look at are those that let go of a job: each puts it
into the next hands, ends it, or belongs to a process that is no longer running.

*HTTP server.* `HttpInv` says of each connection what its request has passed when the handler
has come to a store call (token, route, and for a creation decoding and validation), and that
it has changed nothing so far. It holds whatever the other connections do, because they share
the store only. `TokenGuardsTheStore` names the connection that acts: a finished request
cannot stand in for it, since its effect is no longer "none", and all other connections stay
as they are.

*Semaphores.* `SemInv` joins mutual exclusion of the lock, injectivity of the map, agreement
of every worker's local channel with the map, and the count of each channel with the workers
inside. The double check is what `LookupAgrees` needs: a worker about to create a channel
knows that there is none.

*Delivery.* The receivers only choose among what the core leaves open, so `DeliverySpec`
implies `Spec` and every theorem about the core holds beside them. `OneEffect` alone is not
inductive: a late copy of a request must find its answer remembered. `DeliveryInv` says that
a one-shot job has had an effect exactly when a 2xx is remembered under its key, and that no
success is known, in an answer under way or in the history, without one. For
`TableIsFollowed`, an early end (`GivesUpEarly`) must be told from an end after the last
attempt, although both are the same update: `EarlyEndIsRefusal` does so by the attempt count
of `ExecutionInv`.

*Two processes.* Every step of one process keeps what it tracks itself, by the lemmas of
`PendingStaysTracked` cited for that instance. It may take from the schedule what the other
one is about to run, or delete it; but it never touches the other's batch, queue or workers
(`ClaimsKept`). So a job that leaves the schedule or one pair of hands is in others or gone,
and `NoJobIsLost` is inductive beside the types.

*Due times.* That rounding is harmless is no matter of size but of order (`FloatOrder`): the
clock stays below 2^FloatBits, where floats are exact (`RoundOfExact`), and whatever is
beyond is rounded to something that is still beyond (`RoundOfLarge`). The unit of a float,
the least power of two that leaves it few enough digits, exists because the naturals are
well-founded (`Least`, `UnitExists`). `CapIsExact`: the comparison with the cap decides the
same in floats as in integers, since a product that is not exact, or infinite, is beyond
both.

*Startup.* `StartupInv` says what `run()` has checked by each point: the flags' ranges before
it connects, the queue's capacity, which may have overflowed, before it starts anything, and
the ticker's interval before it runs.

*Payload.* `RequestIsAsGiven` speaks of an attempt only. `PayloadInv` says what every attempt
relies on: from the creation on, the hash and the copy in memory are both the webhook as it was
decoded and validated then (`Kept`), which is also what `StoredWebhookIsStable` needs. A load
gives it back because a field is left out of the hash only for a nil map (`DeserializeKept`) and
because decoding a second time does not round again (`ToFloatTwice`): a rounded number is a
multiple of its unit, or of half its unit when it was rounded up to the first number of the next
binade (`RoundOfRound`), and a number has one unit (`UnitIsUnique`). `HSetKept` is where fields
left out of a write matter: none is left from before. `HeaderPasses` computes what the three
passes of Set leave of each name.

Only model-checked: the liveness properties `DueJobIsSent`, `ClaimIsReleased`,
`ShutdownCompletes`, `DomainIsEntered` and `ListenFailureStopsService`, since fairness and
ENABLED are beyond the prover. No module uses RECURSIVE operators.

## 6. Not modelled

- Logging, `loggingMiddleware`, the printing of the configuration, flag parsing by the
  `flag` package, JSON syntax and URL parsing (a URL is acceptable or not): no state depends
  on their detail.
- The retries of the Redis client (see RedisStore above).
- The timeouts of the HTTP server, of its shutdown and of Redis calls: a call that times out
  is a `rejected` or `unacked` one; there are no time bounds in the model otherwise.
- HEAD requests and path cleaning of `http.ServeMux`; the chunking of bodies.
- `updated_at_ms`, which decides nothing, and the `uuid` package: IDs are fresh.
- Failures and restarts of the two processes in TwoProcesses: each fails as one alone does,
  and losing a job to a failure is what `faults` and `shutdownLoses` are about.
- The 24 hours after which receivers may forget a key (`API.md:454-479`).
- `scripts/benchmark.py`, a load generator outside of the service.

What could be added: a clock bound on how late a webhook may be behind a busy domain, which
needs a model of durations.
