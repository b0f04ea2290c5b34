------------------------------ MODULE Process ------------------------------
(***************************************************************************)
(* What the goroutines of one TickHook process share besides the store:    *)
(* the wall clock, the cancellation of the signal context, and the         *)
(* shutdown sequence of cmd/tickhook/main.go.                              *)
(*                                                                         *)
(* mainPc is where run() stands:                                           *)
(*   "running"    blocked in <-ctx.Done()                                  *)
(*   "waitSched"  ctx is cancelled, sched.Stop() called, in sched.Wait()   *)
(*   "waitExec"   exec.Stop() called, in exec.Wait()                       *)
(*   "exited"     no process: not started yet, shut down or killed         *)
(***************************************************************************)
EXTENDS RedisStore

CONSTANT MaxNow     \* bound: the clock stops here

ASSUME ClockAssumption == MaxNow \in Nat

VARIABLES now, mainPc

MainPc == {"running", "waitSched", "waitExec", "exited"}

ProcessTypeOK ==
    /\ now \in 0 .. MaxNow
    /\ mainPc \in MainPc

Alive == mainPc # "exited"

\* ctx.Done() is readable.  Both stopCh channels are only closed once it is, and
\* wherever one is selected on, ctx.Done() is selected on as well.
CtxDone == mainPc \in {"waitSched", "waitExec"}

\* go-redis fails a command at once when its context is cancelled.
WriteOutcomes == IF CtxDone THEN {"rejected"} ELSE {"ok"} \cup StoreFaults

ReadOutcomes == WriteOutcomes \ {"unacked"}
=============================================================================
