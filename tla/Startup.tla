------------------------------- MODULE Startup -------------------------------
(***************************************************************************)
(* run() of cmd/tickhook/main.go from the command line to the exit code:   *)
(* flags and their validation, the connection to Redis, the start of the   *)
(* components, and what a failed Listen does.  TickHook.tla begins where   *)
(* this module says "running" and has the details of the shutdown, which   *)
(* here only begins and may end.                                           *)
(***************************************************************************)
EXTENDS Durations

CONSTANT Ints       \* the values of an integer flag

ASSUME StartupAssumption == Ints \subseteq Int64

VARIABLES
    flags,          \* Config as the flag package leaves it
    pc,             \* where run() stands
    listening,      \* of server.Start(): "no", "yes" or "failed"
    ctxDone,        \* the signal context is cancelled
    exitCode        \* -1 while the process runs

startupVars == <<flags, pc, listening, ctxDone, exitCode>>

Configs ==
    [redisURL : {"", "http", "redis", "redis with a bad database number"},
     authToken : {"", "secret"}, logLevel : {"info", "verbose"},
     pollMs : Ints, batch : Ints, maxInflight : Ints, maxPerDomain : Ints,
     defaultTimeoutMs : Ints]

StartupInit ==
    /\ flags \in Configs
    /\ pc = "parse"
    /\ listening = "no"
    /\ ctxDone = FALSE
    /\ exitCode = -1

\* A plausible slip: a limit of 0 is let through, for "no limit".
ValidUnlimited(cfg) ==
    /\ cfg.redisURL \in {"redis", "redis with a bad database number"}
    /\ cfg.authToken # ""
    /\ cfg.pollMs > 0 /\ cfg.batch > 0 /\ cfg.maxInflight > 0
    /\ cfg.maxPerDomain >= 0 /\ cfg.defaultTimeoutMs > 0
    /\ cfg.logLevel \in {"debug", "info", "warn", "error"}

\* Config.Validate.
Valid(cfg) ==
    /\ cfg.redisURL \in {"redis", "redis with a bad database number"}
    /\ cfg.authToken # ""
    /\ cfg.pollMs > 0 /\ cfg.batch > 0 /\ cfg.maxInflight > 0
    /\ cfg.maxPerDomain > 0 /\ cfg.defaultTimeoutMs > 0
    /\ cfg.logLevel \in {"debug", "info", "warn", "error"}

Exit(code) == pc' = "exited" /\ exitCode' = code

Parse ==
    /\ pc = "parse"
    /\ IF Valid(flags) THEN pc' = "connect" /\ UNCHANGED exitCode ELSE Exit(1)
    /\ UNCHANGED <<flags, listening, ctxDone>>

\* NewRedisStore, whose redis.ParseURL is stricter than Validate, and Ping.
Connect ==
    /\ pc = "connect"
    /\ \/ Exit(1)
       \/ flags.redisURL = "redis" /\ pc' = "create" /\ UNCHANGED exitCode
    /\ UNCHANGED <<flags, listening, ctxDone>>

QueueCapacity == Wrap(flags.maxInflight * 2)

\* NewExecutor: make panics on a negative capacity.  The signals are caught from here.
CreateComponents ==
    /\ pc = "create"
    /\ IF QueueCapacity < 0 THEN Exit(2) ELSE pc' = "start" /\ UNCHANGED exitCode
    /\ UNCHANGED <<flags, listening, ctxDone>>

PollInterval == Duration(flags.pollMs)

\* The goroutines of workers, scheduler and server; NewTicker panics on an interval
\* that is not positive, and a panic takes the process down.
StartComponents ==
    /\ pc = "start"
    /\ IF PollInterval <= 0 THEN Exit(2) ELSE pc' = "running" /\ UNCHANGED exitCode
    /\ UNCHANGED <<flags, listening, ctxDone>>

\* A plausible slip: the failure is only logged.
ListenAndLog ==
    /\ pc \in {"running", "stopping"} /\ listening = "no"
    /\ listening' \in {"yes", "failed"}
    /\ UNCHANGED <<flags, pc, ctxDone, exitCode>>

\* The goroutine of server.Start(): when ListenAndServe fails, it calls stop().
Listen ==
    /\ pc \in {"running", "stopping"} /\ listening = "no"
    /\ \/ listening' = "yes" /\ UNCHANGED ctxDone
       \/ listening' = "failed" /\ ctxDone' = TRUE
    /\ UNCHANGED <<flags, pc, exitCode>>

Signal ==
    /\ pc \in {"start", "running"}
    /\ ctxDone' = TRUE
    /\ UNCHANGED <<flags, pc, listening, exitCode>>

\* <-ctx.Done() returns and the ordered shutdown begins.  ctx is the scheduler's too:
\* no poll gets past its first store call any more.
BeginShutdown ==
    /\ pc = "running" /\ ctxDone
    /\ pc' = "stopping"
    /\ UNCHANGED <<flags, listening, ctxDone, exitCode>>

\* sched.Wait(), exec.Wait() and server.Shutdown() have returned.
EndShutdown ==
    /\ pc = "stopping"
    /\ Exit(0)
    /\ UNCHANGED <<flags, listening, ctxDone>>

StartupNext ==
    \/ Parse \/ Connect \/ CreateComponents \/ StartComponents
    \/ Listen \/ Signal \/ BeginShutdown \/ EndShutdown

StartupSpec == StartupInit /\ [][StartupNext]_startupVars

\* Up to the end of the signal context run() waits for nothing else.  Nothing is
\* assumed of EndShutdown: sched.Wait() may not return (TickHook's SchedulerStopsOnCancel).
FairStartupSpec ==
    /\ StartupSpec
    /\ WF_startupVars(Parse \/ Connect \/ CreateComponents \/ StartComponents)
    /\ WF_startupVars(Listen)
    /\ WF_startupVars(BeginShutdown)

-----------------------------------------------------------------------------

\* Safety.  A process that runs has the limits the other modules assume of their
\* constants (StoreAssumption, ExecutorAssumption, Payload's default timeout), a queue
\* of twice as many jobs as workers, and a ticker (config.go:69-118, executor.go:43-45,
\* 330, scheduler.go:44): it cannot be running and have no slot or no poll ever.
RunningIsSound ==
    pc = "running" =>
        /\ flags.batch > 0 /\ flags.maxInflight > 0 /\ flags.maxPerDomain > 0
        /\ flags.defaultTimeoutMs > 0
        /\ QueueCapacity = 2 * flags.maxInflight
        /\ PollInterval > 0

\* Liveness.  No process goes on scheduling when it cannot be reached over HTTP: a
\* failed Listen leads to the shutdown a signal leads to (main.go:82-87).  That the
\* shutdown then ends is another question, ShutdownCompletes of TickHook.tla.
ListenFailureStopsService == listening = "failed" ~> pc \in {"stopping", "exited"}
=============================================================================
