------------------------- MODULE LifecycleRefinement -------------------------
(***************************************************************************)
(* TickHook implements JobLifecycle.  The phase of a job is read off the   *)
(* store, the scheduler's batch, the job queue and the workers; a job is   *)
(* over as soon as nothing is left that could run or schedule it, even     *)
(* while its record or an orphaned member of the schedule is still there.  *)
(***************************************************************************)
EXTENDS TickHook

At(phase, dueAtMs) == [phase |-> phase, due |-> dueAtMs]

Over == At("over", 0)

\* The worker that is past GetJob with job j, if there is one.
HolderOf(j) == CHOOSE w \in Workers : HasRecord(w) /\ workerJob[w] = j

Executing(j) == \E w \in Workers : HasRecord(w) /\ workerJob[w] = j

\* Past GetJob, what a worker does with a job depends on its copy only.  One that
\* waits in AddToSchedule for a job deleted meanwhile leaves an orphaned member.
ExecutedLife(j, w) ==
    CASE workerPc[w] = "domain" -> At("claimed", workerRec[w].due)
      [] workerPc[w] = "inflight" -> At("firing", workerRec[w].due)
      [] workerPc[w] = "update" /\ workerRec[w].status = "pending"
            -> At("settling", workerRec[w].due)
      [] workerPc[w] = "reschedule" /\ Stored(j) -> At("settling", workerRec[w].due)
      [] OTHER -> Over

Life(j) ==
    CASE j \notin issued -> At("unknown", 0)
      [] Executing(j) -> ExecutedLife(j, HolderOf(j))
      [] ~Executing(j) /\ Stored(j) /\ Scheduled(j) -> At("scheduled", schedule[j])
      [] ~Executing(j) /\ Stored(j) /\ ~Scheduled(j) /\ Claimed(j)
            -> At("claimed", jobs[j].due)
      [] OTHER -> Over

Lifecycle == INSTANCE JobLifecycle WITH
                life <- [j \in Jobs |-> Life(j)], sent <- tries

\* Refinement.  Whatever interleaving, failed or unacknowledged store call,
\* DELETE, shutdown, crash or restart happens, the scheduler, the queue and the
\* workers together move each job only along its lifecycle: what they do to its
\* record, its score and its copies (executor.go:219-310, scheduler.go:88-99) never
\* runs it twice, early or too often, never schedules it at another time than its
\* outcome demands, and never brings it back once it is over.
ImplementsLifecycle == Lifecycle!Spec
=============================================================================
