---------------------------- MODULE MCTwoProcesses ----------------------------
(* Small instances of TwoProcesses for TLC. *)
EXTENDS TwoProcesses, TLC

CONSTANTS j1, w1

\* One one-shot job, retried once.
MCOneShot ==
    j1 :> [type |-> "one_shot", dueAtMs |-> 0, intervalMs |-> 0,
           maxAttempts |-> 2, backoffBaseMs |-> 1, domain |-> "d"]
=============================================================================
