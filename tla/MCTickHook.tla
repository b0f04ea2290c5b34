----------------------------- MODULE MCTickHook -----------------------------
(* Small instances of TickHook for TLC. *)
EXTENDS LifecycleRefinement, TLC

CONSTANTS j1, j2, j3, w1, w2

OneShot(at, max, domain) ==
    [type |-> "one_shot", dueAtMs |-> at, intervalMs |-> 0,
     maxAttempts |-> max, backoffBaseMs |-> 1, domain |-> domain]

Recurring(at, interval, max, domain) ==
    [type |-> "recurring", dueAtMs |-> at, intervalMs |-> interval,
     maxAttempts |-> max, backoffBaseMs |-> 1, domain |-> domain]

\* A one-shot and a recurring job on one domain, both retried once.
MCMixedPair == (j1 :> OneShot(0, 2, "d")) @@ (j2 :> Recurring(1, 1, 2, "d"))

\* One job, retried once.
MCOneRetried == j1 :> OneShot(0, 2, "d")

\* The pair, and a job that is tried once.
MCMixedThree ==
    (j1 :> OneShot(0, 2, "d")) @@ (j2 :> Recurring(0, 2, 2, "d")) @@ (j3 :> OneShot(0, 1, "d"))

\* Three one-shot jobs due at once, tried once.
MCThreeDue == [j \in {j1, j2, j3} |-> OneShot(0, 1, "d")]

MCWorkerSymmetry == Permutations(Workers)
=============================================================================
