------------------------------ MODULE MCDelivery ------------------------------
(* A small instance of Delivery for TLC. *)
EXTENDS Delivery, TLC

CONSTANTS j1, w1, w2

MCOneShot ==
    j1 :> [type |-> "one_shot", dueAtMs |-> 0, intervalMs |-> 0,
           maxAttempts |-> 3, backoffBaseMs |-> 1, domain |-> "d"]

\* The ends of the status classes, and 429.
MCAnswers == {200, 299, 304, 400, 429, 499, 500, 599}

MCWorkerSymmetry == Permutations(Workers)
=============================================================================
