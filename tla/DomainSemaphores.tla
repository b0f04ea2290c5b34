-------------------------- MODULE DomainSemaphores --------------------------
(***************************************************************************)
(* getDomainSemaphore of internal/executor/executor.go and the use         *)
(* executeJob makes of it: the map of semaphores, filled on first use by   *)
(* double-checked locking, and the buffered channels that count.           *)
(*                                                                         *)
(* pc[w] is where worker w stands:                                         *)
(*   "away"     not in this part of executeJob                             *)
(*   "rlock"    calling RLock                                              *)
(*   "read"     holds the read lock, about to read the map                 *)
(*   "runlock"  holds the read lock, has read the map                      *)
(*   "lock"     found nothing, calling Lock: waits for other writers       *)
(*   "drain"    in Lock: new readers wait for it, it waits for the old ones *)
(*   "check"    holds the write lock, about to look again                  *)
(*   "create"   holds the write lock, about to make a channel and store it *)
(*   "unlock"   holds the write lock, about to return                      *)
(*   "acquire"  selecting on the channel, ctx.Done() and stopCh            *)
(*   "inside"   has a slot: doWebhook and what follows                     *)
(*                                                                         *)
(* The two stages of Lock are those of sync.RWMutex: without the first,    *)
(* readers that keep coming could hold back a writer for ever.             *)
(***************************************************************************)
EXTENDS Integers, FiniteSets, Sequences

CONSTANTS
    Workers,
    Domains,
    MaxPerDomain,   \* capacity of every channel
    NoSem           \* the nil channel of a failed map lookup

ASSUME SemaphoresAssumption ==
    /\ IsFiniteSet(Workers)
    /\ MaxPerDomain \in Nat \ {0}
    /\ NoSem \notin Nat

VARIABLES
    pc,
    domain,         \* domain[w]: the domain worker w asked for last
    sem,            \* sem[w]: its local variable sem
    domainSems,     \* the map: a channel, or NoSem
    fill            \* fill[s]: elements in channel s, the s-th that was made

vars == <<pc, domain, sem, domainSems, fill>>

Pc == {"away", "rlock", "read", "runlock", "lock", "drain", "check", "create",
       "unlock", "acquire", "inside"}

TypeOK ==
    /\ pc \in [Workers -> Pc]
    /\ domain \in [Workers -> Domains]
    /\ sem \in [Workers -> Nat \cup {NoSem}]
    /\ domainSems \in [Domains -> Nat \cup {NoSem}]
    /\ fill \in Seq(Nat)

Init ==
    /\ pc = [w \in Workers |-> "away"]
    /\ domain \in [Workers -> Domains]
    /\ sem = [w \in Workers |-> NoSem]
    /\ domainSems = [d \in Domains |-> NoSem]
    /\ fill = <<>>

-----------------------------------------------------------------------------

Reading(w) == pc[w] \in {"read", "runlock"}

Writing(w) == pc[w] \in {"check", "create", "unlock"}

\* w is the writer other writers, and new readers, wait for.
Announced(w) == pc[w] = "drain" \/ Writing(w)

Transition(w, from, to) ==
    /\ pc[w] = from
    /\ pc' = [pc EXCEPT ![w] = to]

\* The worker has loaded a job with a URL of domain d.
Call(w, d) ==
    /\ Transition(w, "away", "rlock")
    /\ domain' = [domain EXCEPT ![w] = d]
    /\ sem' = [sem EXCEPT ![w] = NoSem]
    /\ UNCHANGED <<domainSems, fill>>

\* Plausible slips: the first lookup takes no lock, or one that does not make
\* readers wait for a writer that waits.
ReadWithoutLock(w) ==
    /\ Transition(w, "rlock", "read")
    /\ UNCHANGED <<domain, sem, domainSems, fill>>

RLockPastWaitingWriter(w) ==
    /\ Transition(w, "rlock", "read")
    /\ ~\E v \in Workers : Writing(v)
    /\ UNCHANGED <<domain, sem, domainSems, fill>>

RLock(w) ==
    /\ Transition(w, "rlock", "read")
    /\ ~\E v \in Workers : Announced(v)
    /\ UNCHANGED <<domain, sem, domainSems, fill>>

ReadMap(w) ==
    /\ Transition(w, "read", "runlock")
    /\ sem' = [sem EXCEPT ![w] = domainSems[domain[w]]]
    /\ UNCHANGED <<domain, domainSems, fill>>

RUnlock(w) ==
    /\ Transition(w, "runlock", IF sem[w] # NoSem THEN "acquire" ELSE "lock")
    /\ UNCHANGED <<domain, sem, domainSems, fill>>

Announce(w) ==
    /\ Transition(w, "lock", "drain")
    /\ ~\E v \in Workers : Announced(v)
    /\ UNCHANGED <<domain, sem, domainSems, fill>>

Lock(w) ==
    /\ Transition(w, "drain", "check")
    /\ ~\E v \in Workers : Reading(v)
    /\ UNCHANGED <<domain, sem, domainSems, fill>>

\* A plausible slip: no second look at the map under the write lock.
NoDoubleCheck(w) ==
    /\ Transition(w, "check", "create")
    /\ UNCHANGED <<domain, sem, domainSems, fill>>

DoubleCheck(w) ==
    /\ Transition(w, "check", IF domainSems[domain[w]] # NoSem THEN "unlock" ELSE "create")
    /\ sem' = [sem EXCEPT ![w] = domainSems[domain[w]]]
    /\ UNCHANGED <<domain, domainSems, fill>>

Create(w) ==
    /\ Transition(w, "create", "unlock")
    /\ fill' = Append(fill, 0)
    /\ sem' = [sem EXCEPT ![w] = Len(fill) + 1]
    /\ domainSems' = [domainSems EXCEPT ![domain[w]] = Len(fill) + 1]
    /\ UNCHANGED domain

Unlock(w) ==
    /\ Transition(w, "unlock", "acquire")
    /\ UNCHANGED <<domain, sem, domainSems, fill>>

Acquire(w) ==
    /\ Transition(w, "acquire", "inside")
    /\ fill[sem[w]] < MaxPerDomain
    /\ fill' = [fill EXCEPT ![sem[w]] = @ + 1]
    /\ UNCHANGED <<domain, sem, domainSems>>

\* A plausible slip: the receive is deferred before the send has succeeded.
GiveUpAndRelease(w) ==
    /\ Transition(w, "acquire", "away")
    /\ fill' = [fill EXCEPT ![sem[w]] = @ - 1]
    /\ UNCHANGED <<domain, sem, domainSems>>

\* ctx.Done() or stopCh wins the select.
GiveUp(w) ==
    /\ Transition(w, "acquire", "away")
    /\ UNCHANGED <<domain, sem, domainSems, fill>>

\* A plausible slip: no receive is deferred.
ReturnWithoutRelease(w) ==
    /\ Transition(w, "inside", "away")
    /\ UNCHANGED <<domain, sem, domainSems, fill>>

\* The deferred receive.
Release(w) ==
    /\ Transition(w, "inside", "away")
    /\ fill' = [fill EXCEPT ![sem[w]] = @ - 1]
    /\ UNCHANGED <<domain, sem, domainSems>>

Looking(w) ==
    \/ RLock(w) \/ ReadMap(w) \/ RUnlock(w)
    \/ Announce(w) \/ Lock(w) \/ DoubleCheck(w) \/ Create(w) \/ Unlock(w)

Next ==
    \E w \in Workers :
        \/ \E d \in Domains : Call(w, d)
        \/ Looking(w)
        \/ Acquire(w) \/ GiveUp(w) \/ Release(w)

Spec == Init /\ [][Next]_vars

\* A goroutine that can run does, and a webhook has a deadline.  A writer that
\* unlocks lets the readers that came meanwhile in, the mutex among writers is
\* passed on to who has waited long, and senders blocked on a channel are served in
\* the order they came: what keeps becoming free is obtained (SF).
Fairness ==
    \A w \in Workers :
        /\ WF_vars(Looking(w) \/ Release(w))
        /\ SF_vars(RLock(w) \/ Announce(w) \/ Acquire(w))

FairSpec == Spec /\ Fairness

-----------------------------------------------------------------------------

Inside(d) == {w \in Workers : pc[w] = "inside" /\ domain[w] = d}

Limiter == INSTANCE DomainLimiter WITH inside <- [d \in Domains |-> Inside(d)]

\* Refinement.  However the lookups interleave, all workers of a domain end up
\* with one channel, and its capacity limits them all: the lazily filled map
\* (executor.go:313-333) implements one limit per domain.
ImplementsLimiter == Limiter!Spec

\* Safety.  The map is never written while another worker reads or writes it
\* (a Go program dies of that).
MapAccessIsExclusive ==
    \A v, w \in Workers :
        v # w /\ pc[v] = "create" => pc[w] \notin {"read", "check", "create"}

\* Liveness.  A worker that asks for its domain gets a slot, unless it gives up: no
\* lock is left behind on any of the three ways out of getDomainSemaphore, readers
\* and writers do not wait for each other, and every slot comes back.
DomainIsEntered ==
    \A w \in Workers : pc[w] = "rlock" ~> pc[w] \in {"inside", "away"}

\* The write lock excludes everybody else.
LocksExclude ==
    /\ \A v, w \in Workers : v # w /\ Announced(v) => ~Announced(w)
    /\ \A v, w \in Workers : Writing(v) => ~Reading(w)

\* The map holds channels that were made, one domain each.
MapIsInjective ==
    /\ \A d \in Domains : domainSems[d] # NoSem => domainSems[d] \in DOMAIN fill
    /\ \A d, e \in Domains :
            d # e /\ domainSems[d] # NoSem => domainSems[d] # domainSems[e]

\* A worker past its lookup has the channel of the map; one about to create a
\* channel does so for a domain that has none.
LookupAgrees ==
    \A w \in Workers :
        /\ pc[w] \in {"unlock", "acquire", "inside"} => sem[w] # NoSem
        /\ pc[w] \in {"runlock", "unlock", "acquire", "inside"} /\ sem[w] # NoSem =>
                sem[w] = domainSems[domain[w]]
        /\ pc[w] = "create" => domainSems[domain[w]] = NoSem

\* The elements in a domain's channel are the workers inside the domain.
FillCounts ==
    \A d \in Domains :
        domainSems[d] # NoSem => fill[domainSems[d]] = Cardinality(Inside(d))

\* Safety.  Why ImplementsLimiter holds, in a form every step preserves.
SemInv ==
    /\ LocksExclude
    /\ MapIsInjective
    /\ LookupAgrees
    /\ FillCounts
=============================================================================
