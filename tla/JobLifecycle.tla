---------------------------- MODULE JobLifecycle ----------------------------
(***************************************************************************)
(* What TickHook promises of every job, without saying how: each job is a  *)
(* small state machine driven by a clock, and no failure of the store, the *)
(* network or the process can do more than end it.  Nothing is run twice,  *)
(* early, more often than allowed, on a stale count, or after it is over.  *)
(*                                                                         *)
(* life[j].phase is where job j stands:                                    *)
(*   "unknown"    its ID has not been handed out                           *)
(*   "scheduled"  waiting for life[j].due                                  *)
(*   "claimed"    taken for execution, its webhook not sent yet            *)
(*   "firing"     its webhook is on its way                                *)
(*   "settling"   answered; to be scheduled again at life[j].due           *)
(*   "over"       nothing will happen to it any more                       *)
(***************************************************************************)
EXTENDS JobModel

VARIABLES
    now,
    life,       \* life[j]: phase and due time of job j; due is 0 unless it matters
    sent        \* sent[j]: requests sent for j since its last success

Phase == {"unknown", "scheduled", "claimed", "firing", "settling", "over"}

At(phase, dueAtMs) == [phase |-> phase, due |-> dueAtMs]

Over == At("over", 0)

Init ==
    /\ now = 0
    /\ life = [j \in Jobs |-> At("unknown", 0)]
    /\ sent = [j \in Jobs |-> 0]

InPhase(j, phase) == life[j].phase = phase

Moves(j, to) == life' = [life EXCEPT ![j] = to]

-----------------------------------------------------------------------------

TimePasses ==
    /\ now' > now
    /\ UNCHANGED <<life, sent>>

\* The job is accepted, or creating it failed and the ID is never used again.
Create(j) ==
    /\ InPhase(j, "unknown")
    /\ Moves(j, At("scheduled", Request[j].dueAtMs)) \/ Moves(j, Over)
    /\ UNCHANGED <<now, sent>>

Claim(j) ==
    /\ InPhase(j, "scheduled")
    /\ life[j].due <= now
    /\ Moves(j, At("claimed", life[j].due))
    /\ UNCHANGED <<now, sent>>

Fire(j) ==
    /\ InPhase(j, "claimed")
    /\ sent[j] < Request[j].maxAttempts
    /\ Moves(j, At("firing", life[j].due))
    /\ sent' = [sent EXCEPT ![j] = @ + 1]
    /\ UNCHANGED now

\* A one-shot job is done; a recurring one goes on one interval after the due
\* time of the run that succeeded.
Succeed(j) ==
    /\ InPhase(j, "firing")
    /\ Moves(j, IF Request[j].type = "one_shot"
                THEN Over
                ELSE At("settling", life[j].due + Request[j].intervalMs))
    /\ sent' = [sent EXCEPT ![j] = 0]
    /\ UNCHANGED now

\* The job is retried after its backoff, unless this was its last attempt.
Fail(j) ==
    /\ InPhase(j, "firing")
    /\ IF sent[j] < Request[j].maxAttempts
       THEN \E delay \in CalculateBackoff(sent[j], Request[j].backoffBaseMs) :
                Moves(j, At("settling", now + delay))
       ELSE Moves(j, Over)
    /\ UNCHANGED <<now, sent>>

Refuse(j) ==
    /\ InPhase(j, "firing")
    /\ Moves(j, Over)
    /\ UNCHANGED <<now, sent>>

Reschedule(j) ==
    /\ InPhase(j, "settling")
    /\ Moves(j, At("scheduled", life[j].due))
    /\ UNCHANGED <<now, sent>>

\* A job is deleted, or a failure drops jobs: one whose store call failed, all
\* that a dying process had claimed.
Lose(lost) ==
    /\ lost # {}
    /\ \A j \in lost : life[j].phase \in {"scheduled", "claimed", "firing", "settling"}
    /\ life' = [j \in Jobs |-> IF j \in lost THEN Over ELSE life[j]]
    /\ UNCHANGED <<now, sent>>

Next ==
    \/ TimePasses
    \/ \E j \in Jobs :
        \/ Create(j) \/ Claim(j) \/ Fire(j)
        \/ Succeed(j) \/ Fail(j) \/ Refuse(j) \/ Reschedule(j)
    \/ \E lost \in SUBSET Jobs : Lose(lost)

Spec == Init /\ [][Next]_<<now, life, sent>>
=============================================================================
