---------------------------- MODULE DomainLimiter ----------------------------
(***************************************************************************)
(* The per-domain concurrency limit as its users see it: at most           *)
(* MaxPerDomain workers are inside a domain at a time.  A worker that      *)
(* wants to enter a full domain waits or gives up.                         *)
(***************************************************************************)
EXTENDS Integers, FiniteSets

CONSTANTS Workers, Domains, MaxPerDomain

VARIABLE inside         \* inside[d]: the workers executing a webhook of domain d

Init == inside = [d \in Domains |-> {}]

Enter(w, d) ==
    /\ \A e \in Domains : w \notin inside[e]
    /\ Cardinality(inside[d]) < MaxPerDomain
    /\ inside' = [inside EXCEPT ![d] = @ \cup {w}]

Leave(w, d) ==
    /\ w \in inside[d]
    /\ inside' = [inside EXCEPT ![d] = @ \ {w}]

Next == \E w \in Workers, d \in Domains : Enter(w, d) \/ Leave(w, d)

Spec == Init /\ [][Next]_inside
=============================================================================
