----------------------- MODULE DomainSemaphoresProofs -----------------------
(***************************************************************************)
(* Proof, for any workers, domains and limit, that the lazily filled map   *)
(* of channels implements one concurrency limit per domain.                *)
(***************************************************************************)
EXTENDS DomainSemaphores, FiniteSetTheorems, TLAPS

Inv == TypeOK /\ SemInv

\* The workers inside a domain can be counted.
LEMMA InsideIsFinite ==
    ASSUME NEW d \in Domains
    PROVE  IsFiniteSet(Inside(d)) /\ Cardinality(Inside(d)) \in Nat
BY SemaphoresAssumption, FS_Subset, FS_CardinalityType DEF Inside

\* A step of a worker that is not inside and does not enter changes nobody's
\* being inside.
LEMMA InsideKept ==
    ASSUME TypeOK, NEW w \in Workers, pc[w] # "inside",
           NEW to \in Pc \ {"inside"}, pc' = [pc EXCEPT ![w] = to],
           \A v \in Workers : v # w => domain'[v] = domain[v],
           NEW d \in Domains
    PROVE  Inside(d)' = Inside(d)
BY DEF Inside, TypeOK

LEMMA InitInv == Init => Inv
<1> SUFFICES ASSUME Init PROVE Inv
    OBVIOUS
<1>1. TypeOK
    BY DEF Init, TypeOK, Pc
<1>2. LocksExclude /\ MapIsInjective /\ LookupAgrees /\ FillCounts
    BY DEF Init, LocksExclude, MapIsInjective, LookupAgrees, FillCounts, Announced,
           Writing, Reading
<1> QED BY <1>1, <1>2 DEF Inv, SemInv

-----------------------------------------------------------------------------

\* The steps that move one worker's program counter and nothing else, outside of
\* the domains.
LEMMA PcStepInv ==
    ASSUME Inv, NEW w \in Workers, pc[w] # "inside",
           NEW to \in Pc \ {"inside", "create"}, pc' = [pc EXCEPT ![w] = to],
           UNCHANGED <<domain, sem, domainSems, fill>>,
           LocksExclude',
           to \in {"unlock", "acquire"} =>
                pc[w] \in {"runlock", "unlock"} /\ sem[w] # NoSem,
           to = "runlock" => pc[w] = "runlock"
    PROVE  Inv'
<1> USE DEF Inv, SemInv
<1>1. TypeOK'
    BY DEF TypeOK
<1>2. MapIsInjective'
    BY DEF MapIsInjective
<1>3. LookupAgrees'
    BY DEF LookupAgrees, TypeOK
<1>4. FillCounts'
    BY InsideKept DEF FillCounts, TypeOK
<1> QED BY <1>1, <1>2, <1>3, <1>4

LEMMA CallInv == ASSUME Inv, NEW w \in Workers, NEW d \in Domains, Call(w, d) PROVE Inv'
<1> USE DEF Inv, SemInv
<1>1. pc[w] = "away" /\ pc' = [pc EXCEPT ![w] = "rlock"]
    BY DEF Call, Transition
<1>2. TypeOK'
    BY <1>1 DEF Call, TypeOK, Pc
<1>3. LocksExclude'
    BY <1>1 DEF LocksExclude, Announced, Writing, Reading, TypeOK
<1>4. MapIsInjective'
    BY DEF Call, MapIsInjective
<1>5. LookupAgrees'
    BY <1>1 DEF Call, LookupAgrees, TypeOK
<1>6. FillCounts'
    <2>1. \A e \in Domains : Inside(e)' = Inside(e)
        BY <1>1, InsideKept DEF Call, TypeOK, Pc
    <2> QED BY <2>1 DEF Call, FillCounts
<1> QED BY <1>2, <1>3, <1>4, <1>5, <1>6

LEMMA RLockInv == ASSUME Inv, NEW w \in Workers, RLock(w) PROVE Inv'
<1>1. LocksExclude'
    BY DEF RLock, Transition, Inv, SemInv, TypeOK, LocksExclude, Announced, Writing,
           Reading
<1> QED BY <1>1, PcStepInv DEF RLock, Transition, Pc

LEMMA ReadMapInv == ASSUME Inv, NEW w \in Workers, ReadMap(w) PROVE Inv'
<1> USE DEF Inv, SemInv
<1>1. pc[w] = "read" /\ pc' = [pc EXCEPT ![w] = "runlock"]
    BY DEF ReadMap, Transition
<1>2. TypeOK'
    BY <1>1 DEF ReadMap, TypeOK, Pc
<1>3. LocksExclude'
    BY <1>1 DEF LocksExclude, Announced, Writing, Reading, TypeOK
<1>4. MapIsInjective'
    BY DEF ReadMap, MapIsInjective
<1>5. LookupAgrees'
    BY <1>1 DEF ReadMap, LookupAgrees, TypeOK
<1>6. FillCounts'
    BY <1>1, InsideKept DEF ReadMap, FillCounts, TypeOK, Pc
<1> QED BY <1>2, <1>3, <1>4, <1>5, <1>6

LEMMA RUnlockInv == ASSUME Inv, NEW w \in Workers, RUnlock(w) PROVE Inv'
<1> DEFINE to == IF sem[w] # NoSem THEN "acquire" ELSE "lock"
<1>1. pc[w] = "runlock" /\ pc' = [pc EXCEPT ![w] = to]
    BY DEF RUnlock, Transition
<1>2. LocksExclude'
    BY <1>1 DEF Inv, SemInv, TypeOK, LocksExclude, Announced, Writing, Reading
<1>3. to \in {"acquire", "lock"} /\ (to = "acquire" => sem[w] # NoSem)
    OBVIOUS
<1> HIDE DEF to
<1> QED BY <1>1, <1>2, <1>3, PcStepInv DEF RUnlock, Pc

LEMMA AnnounceInv == ASSUME Inv, NEW w \in Workers, Announce(w) PROVE Inv'
<1>1. LocksExclude'
    BY DEF Announce, Transition, Inv, SemInv, TypeOK, LocksExclude, Announced, Writing,
           Reading
<1> QED BY <1>1, PcStepInv DEF Announce, Transition, Pc

LEMMA LockInv == ASSUME Inv, NEW w \in Workers, Lock(w) PROVE Inv'
<1>1. LocksExclude'
    BY DEF Lock, Transition, Inv, SemInv, TypeOK, LocksExclude, Announced, Writing,
           Reading
<1> QED BY <1>1, PcStepInv DEF Lock, Transition, Pc

LEMMA DoubleCheckInv == ASSUME Inv, NEW w \in Workers, DoubleCheck(w) PROVE Inv'
<1> USE DEF Inv, SemInv
<1> DEFINE to == IF domainSems[domain[w]] # NoSem THEN "unlock" ELSE "create"
<1>1. pc[w] = "check" /\ pc' = [pc EXCEPT ![w] = to]
    BY DEF DoubleCheck, Transition
<1>2. /\ to \in {"unlock", "create"}
      /\ to = "unlock" => domainSems[domain[w]] # NoSem
      /\ to = "create" => domainSems[domain[w]] = NoSem
    OBVIOUS
<1> HIDE DEF to
<1>3. TypeOK'
    BY <1>1, <1>2 DEF DoubleCheck, TypeOK, Pc
<1>4. LocksExclude'
    BY <1>1, <1>2 DEF LocksExclude, Announced, Writing, Reading, TypeOK
<1>5. MapIsInjective'
    BY DEF DoubleCheck, MapIsInjective
<1>6. LookupAgrees'
    BY <1>1, <1>2 DEF DoubleCheck, LookupAgrees, TypeOK
<1>7. FillCounts'
    BY <1>1, <1>2, InsideKept DEF DoubleCheck, FillCounts, TypeOK, Pc
<1> QED BY <1>3, <1>4, <1>5, <1>6, <1>7

LEMMA UnlockInv == ASSUME Inv, NEW w \in Workers, Unlock(w) PROVE Inv'
<1>1. LocksExclude'
    BY DEF Unlock, Transition, Inv, SemInv, TypeOK, LocksExclude, Announced, Writing,
           Reading
<1>2. pc[w] = "unlock" /\ sem[w] # NoSem
    BY DEF Unlock, Transition, Inv, SemInv, LookupAgrees
<1> QED BY <1>1, <1>2, PcStepInv DEF Unlock, Transition, Pc

LEMMA GiveUpInv == ASSUME Inv, NEW w \in Workers, GiveUp(w) PROVE Inv'
<1>1. LocksExclude'
    BY DEF GiveUp, Transition, Inv, SemInv, TypeOK, LocksExclude, Announced, Writing,
           Reading
<1> QED BY <1>1, PcStepInv DEF GiveUp, Transition, Pc

\* The creator is the only writer, so no other worker is past a lookup of its
\* domain, and nobody is inside it: the new, empty channel counts right.
LEMMA CreateInv == ASSUME Inv, NEW w \in Workers, Create(w) PROVE Inv'
<1> USE DEF Inv, SemInv
<1> DEFINE new == Len(fill) + 1
<1>1. pc[w] = "create" /\ pc' = [pc EXCEPT ![w] = "unlock"] /\ domain' = domain
    BY DEF Create, Transition
<1>2. /\ fill \in Seq(Nat)
      /\ fill' = Append(fill, 0)
      /\ sem' = [sem EXCEPT ![w] = new]
      /\ domainSems' = [domainSems EXCEPT ![domain[w]] = new]
      /\ domainSems[domain[w]] = NoSem
    BY <1>1 DEF Create, TypeOK, LookupAgrees
<1>3. /\ new \in Nat /\ new # NoSem /\ new \notin DOMAIN fill
      /\ DOMAIN fill' = DOMAIN fill \cup {new}
      /\ fill'[new] = 0
      /\ \A s \in DOMAIN fill : fill'[s] = fill[s]
    BY <1>2, SemaphoresAssumption
<1> HIDE DEF new
<1>4. TypeOK'
    <2>1. fill' \in Seq(Nat)
        BY <1>2
    <2>2. domain[w] \in Domains
        BY DEF TypeOK
    <2> QED BY <1>1, <1>2, <1>3, <2>1, <2>2 DEF TypeOK, Pc
<1>5. LocksExclude'
    BY <1>1 DEF LocksExclude, Announced, Writing, Reading, TypeOK
<1>6. MapIsInjective'
    BY <1>2, <1>3 DEF MapIsInjective, TypeOK
<1>7. LookupAgrees'
    <2> SUFFICES ASSUME NEW v \in Workers
                 PROVE  /\ pc'[v] \in {"unlock", "acquire", "inside"} => sem'[v] # NoSem
                        /\ /\ pc'[v] \in {"runlock", "unlock", "acquire", "inside"}
                           /\ sem'[v] # NoSem
                           => sem'[v] = domainSems'[domain'[v]]
                        /\ pc'[v] = "create" => domainSems'[domain'[v]] = NoSem
        BY DEF LookupAgrees
    <2>1. CASE v = w
        BY <1>1, <1>2, <1>3, <2>1 DEF TypeOK
    <2>2. CASE v # w
        <3>1. pc'[v] = pc[v] /\ sem'[v] = sem[v]
            BY <1>1, <1>2, <2>2 DEF TypeOK
        <3>2. pc[v] \notin {"create", "unlock", "runlock"}
            BY <1>1, <2>2 DEF LocksExclude, Announced, Writing, Reading
        <3>3. pc[v] \in {"acquire", "inside"} => domain[v] # domain[w]
            BY <1>2 DEF LookupAgrees
        <3> QED BY <1>1, <1>2, <3>1, <3>2, <3>3 DEF LookupAgrees, TypeOK
    <2> QED BY <2>1, <2>2
<1>8. FillCounts'
    <2>1. \A d \in Domains : Inside(d)' = Inside(d)
        BY <1>1, InsideKept DEF Pc
    <2>2. Inside(domain[w]) = {}
        BY <1>2 DEF Inside, LookupAgrees
    <2>3. Cardinality({}) = 0
        BY FS_EmptySet
    <2>4. \A d \in Domains : d # domain[w] => domainSems'[d] = domainSems[d]
        BY <1>2 DEF TypeOK
    <2>5. domainSems'[domain[w]] = new
        BY <1>2 DEF TypeOK
    <2> QED BY <1>3, <2>1, <2>2, <2>3, <2>4, <2>5 DEF FillCounts, MapIsInjective
<1> QED BY <1>4, <1>5, <1>6, <1>7, <1>8

\* One more worker inside, one more element in the channel all its workers use.
LEMMA AcquireInv == ASSUME Inv, NEW w \in Workers, Acquire(w) PROVE Inv'
<1> USE DEF Inv, SemInv
<1>0. PICK d \in Domains, s \in Nat \cup {NoSem} : d = domain[w] /\ s = sem[w]
    BY DEF TypeOK
<1>1. /\ pc[w] = "acquire" /\ pc' = [pc EXCEPT ![w] = "inside"]
      /\ UNCHANGED <<domain, sem, domainSems>>
      /\ fill' = [fill EXCEPT ![s] = @ + 1]
    BY <1>0 DEF Acquire, Transition
<1>2. d \in Domains /\ s # NoSem /\ s = domainSems[d] /\ s \in DOMAIN fill
    BY <1>0, <1>1 DEF LookupAgrees, MapIsInjective
<1>3. fill \in Seq(Nat) /\ fill[s] \in Nat
    BY <1>2 DEF TypeOK
<1>4. /\ fill' \in Seq(Nat) /\ DOMAIN fill' = DOMAIN fill
      /\ fill'[s] = fill[s] + 1
      /\ \A t \in DOMAIN fill : t # s => fill'[t] = fill[t]
    BY <1>1, <1>2, <1>3
<1>5. TypeOK'
    BY <1>1, <1>4 DEF TypeOK, Pc
<1>6. LocksExclude'
    BY <1>1 DEF LocksExclude, Announced, Writing, Reading, TypeOK
<1>7. MapIsInjective'
    BY <1>1, <1>4 DEF MapIsInjective
<1>8. LookupAgrees'
    BY <1>1 DEF LookupAgrees, TypeOK
<1>9. FillCounts'
    <2>1. Inside(d)' = Inside(d) \cup {w} /\ w \notin Inside(d)
        BY <1>0, <1>1 DEF Inside, TypeOK
    <2>2. Cardinality(Inside(d)') = Cardinality(Inside(d)) + 1
        BY <1>2, <2>1, InsideIsFinite, FS_AddElement
    <2>3. \A e \in Domains : e # d => Inside(e)' = Inside(e)
        BY <1>0, <1>1 DEF Inside, TypeOK
    <2>4. \A e \in Domains :
            e # d /\ domainSems[e] # NoSem => domainSems[e] \in DOMAIN fill \ {s}
        BY <1>2 DEF MapIsInjective
    <2>5. \A e \in Domains : domainSems[e] # NoSem =>
            fill'[domainSems[e]] = Cardinality(Inside(e)')
        <3>1. fill'[domainSems[d]] = Cardinality(Inside(d)')
            BY <1>2, <1>4, <2>2 DEF FillCounts
        <3>2. ASSUME NEW e \in Domains, e # d, domainSems[e] # NoSem
              PROVE  fill'[domainSems[e]] = Cardinality(Inside(e)')
            BY <1>4, <2>3, <2>4, <3>2 DEF FillCounts
        <3> QED BY <3>1, <3>2
    <2> QED BY <1>1, <2>5 DEF FillCounts
<1> QED BY <1>5, <1>6, <1>7, <1>8, <1>9

\* One worker less inside; the channel was not empty, as it counted that worker.
LEMMA ReleaseInv == ASSUME Inv, NEW w \in Workers, Release(w) PROVE Inv'
<1> USE DEF Inv, SemInv
<1>0. PICK d \in Domains, s \in Nat \cup {NoSem} : d = domain[w] /\ s = sem[w]
    BY DEF TypeOK
<1>1. /\ pc[w] = "inside" /\ pc' = [pc EXCEPT ![w] = "away"]
      /\ UNCHANGED <<domain, sem, domainSems>>
      /\ fill' = [fill EXCEPT ![s] = @ - 1]
    BY <1>0 DEF Release, Transition
<1>2. d \in Domains /\ s # NoSem /\ s = domainSems[d] /\ s \in DOMAIN fill
    BY <1>0, <1>1 DEF LookupAgrees, MapIsInjective
<1>3. fill \in Seq(Nat) /\ fill[s] \in Nat
    BY <1>2 DEF TypeOK
<1>4. w \in Inside(d)
    BY <1>0, <1>1 DEF Inside
<1>5. fill[s] = Cardinality(Inside(d))
    BY <1>2 DEF FillCounts
<1>6. Inside(d)' = Inside(d) \ {w}
    BY <1>0, <1>1 DEF Inside, TypeOK
<1>7. \A e \in Domains : e # d => Inside(e)' = Inside(e)
    BY <1>0, <1>1 DEF Inside, TypeOK
<1>8. Cardinality(Inside(d)') = Cardinality(Inside(d)) - 1
    BY <1>2, <1>4, <1>6, InsideIsFinite, FS_RemoveElement
<1>9. IsFiniteSet(Inside(d)') /\ Cardinality(Inside(d)') \in Nat
    BY <1>2, <1>6, InsideIsFinite, FS_Subset, FS_CardinalityType
<1>10. fill[s] - 1 \in Nat
    BY <1>5, <1>8, <1>9
<1>11. /\ fill' \in Seq(Nat) /\ DOMAIN fill' = DOMAIN fill
       /\ fill'[s] = fill[s] - 1
       /\ \A t \in DOMAIN fill : t # s => fill'[t] = fill[t]
    BY <1>1, <1>2, <1>3, <1>10
<1>12. TypeOK'
    BY <1>1, <1>11 DEF TypeOK, Pc
<1>13. LocksExclude'
    BY <1>1 DEF LocksExclude, Announced, Writing, Reading, TypeOK
<1>14. MapIsInjective'
    BY <1>1, <1>11 DEF MapIsInjective
<1>15. LookupAgrees'
    BY <1>1 DEF LookupAgrees, TypeOK
<1>16. FillCounts'
    <2>1. \A e \in Domains :
            e # d /\ domainSems[e] # NoSem => domainSems[e] \in DOMAIN fill \ {s}
        BY <1>2 DEF MapIsInjective
    <2>2. \A e \in Domains : domainSems[e] # NoSem =>
            fill'[domainSems[e]] = Cardinality(Inside(e)')
        <3>1. fill'[domainSems[d]] = Cardinality(Inside(d)')
            BY <1>2, <1>5, <1>8, <1>11
        <3>2. ASSUME NEW e \in Domains, e # d, domainSems[e] # NoSem
              PROVE  fill'[domainSems[e]] = Cardinality(Inside(e)')
            BY <1>7, <1>11, <2>1, <3>2 DEF FillCounts
        <3> QED BY <3>1, <3>2
    <2> QED BY <1>1, <2>2 DEF FillCounts
<1> QED BY <1>12, <1>13, <1>14, <1>15, <1>16

LEMMA NextInv == Inv /\ [Next]_vars => Inv'
<1> SUFFICES ASSUME Inv, [Next]_vars PROVE Inv'
    OBVIOUS
<1>1. CASE UNCHANGED vars
    BY <1>1 DEF Inv, TypeOK, SemInv, LocksExclude, MapIsInjective, LookupAgrees,
                FillCounts, Inside, Announced, Writing, Reading, vars
<1>2. CASE Next
    BY <1>2, CallInv, RLockInv, ReadMapInv, RUnlockInv, AnnounceInv, LockInv,
       DoubleCheckInv, CreateInv, UnlockInv, AcquireInv, GiveUpInv, ReleaseInv
       DEF Next, Looking
<1> QED BY <1>1, <1>2

\* The map of semaphores, its locks and its channels stay consistent, whatever the
\* interleaving of lookups (executor.go:313-333).
THEOREM SemaphoresConsistent == Spec => [](TypeOK /\ SemInv)
<1>1. Init => Inv
    BY InitInv
<1>2. Inv /\ [Next]_vars => Inv'
    BY NextInv
<1>3. Inv => TypeOK /\ SemInv
    BY DEF Inv
<1> QED BY <1>1, <1>2, <1>3, PTL DEF Spec

\* A worker's channel is one that was made, a domain's as well (executor.go:313-333).
THEOREM SemaphoreTypes == Spec => []TypeOK
BY SemaphoresConsistent, PTL

\* The map is never written while another worker reads or writes it: readers and writers
\* of the RWMutex keep apart in every state of the lookup (executor.go:315-332).
THEOREM MapIsNeverRaced == Spec => []MapAccessIsExclusive
<1>1. SemInv => MapAccessIsExclusive
    BY DEF SemInv, LocksExclude, MapAccessIsExclusive, Announced, Writing, Reading
<1> QED BY <1>1, SemaphoresConsistent, PTL

-----------------------------------------------------------------------------

\* Only taking and giving back a slot is visible outside.
LEMMA StepImplementsLimiter ==
    ASSUME Inv, [Next]_vars
    PROVE  [Limiter!Next]_([d \in Domains |-> Inside(d)])
<1> DEFINE inside == [d \in Domains |-> Inside(d)]
<1> USE DEF Inv, SemInv
<1>1. ASSUME NEW w \in Workers, Acquire(w)
      PROVE  Limiter!Enter(w, domain[w])
    <2>1. /\ pc[w] = "acquire" /\ pc' = [pc EXCEPT ![w] = "inside"]
          /\ domain' = domain /\ domain[w] \in Domains
          /\ fill[sem[w]] < MaxPerDomain
        BY <1>1 DEF Acquire, Transition, TypeOK
    <2>2. \A e \in Domains : w \notin inside[e]
        BY <2>1 DEF Inside
    <2>3. Cardinality(inside[domain[w]]) < MaxPerDomain
        BY <2>1 DEF LookupAgrees, FillCounts
    <2>4. Inside(domain[w])' = Inside(domain[w]) \cup {w}
        BY <2>1 DEF Inside, TypeOK
    <2>5. \A e \in Domains : e # domain[w] => Inside(e)' = Inside(e)
        BY <2>1 DEF Inside, TypeOK
    <2>6. inside' = [inside EXCEPT ![domain[w]] = @ \cup {w}]
        BY <2>1, <2>4, <2>5
    <2>7. Limiter!Cardinality(inside[domain[w]]) < MaxPerDomain
        BY <2>3 DEF Cardinality, Limiter!Cardinality
    <2> QED BY <2>2, <2>6, <2>7 DEF Limiter!Enter
<1>2. ASSUME NEW w \in Workers, Release(w)
      PROVE  Limiter!Leave(w, domain[w])
    <2>1. /\ pc[w] = "inside" /\ pc' = [pc EXCEPT ![w] = "away"]
          /\ domain' = domain /\ domain[w] \in Domains
        BY <1>2 DEF Release, Transition, TypeOK
    <2>2. w \in inside[domain[w]]
        BY <2>1 DEF Inside
    <2>3. Inside(domain[w])' = Inside(domain[w]) \ {w}
        BY <2>1 DEF Inside, TypeOK
    <2>4. \A e \in Domains : e # domain[w] => Inside(e)' = Inside(e)
        BY <2>1 DEF Inside, TypeOK
    <2>5. inside' = [inside EXCEPT ![domain[w]] = @ \ {w}]
        BY <2>1, <2>3, <2>4
    <2> QED BY <2>2, <2>5 DEF Limiter!Leave
<1>3. ASSUME NEW w \in Workers, NEW d \in Domains, Call(w, d)
      PROVE  inside' = inside
    <2>1. \A e \in Domains : Inside(e)' = Inside(e)
        BY <1>3, InsideKept DEF Call, Transition, TypeOK, Pc
    <2> QED BY <2>1
<1>4. ASSUME NEW w \in Workers, Looking(w) \/ GiveUp(w)
      PROVE  inside' = inside
    <2>1. PICK to \in Pc \ {"inside"} :
            pc[w] # "inside" /\ pc' = [pc EXCEPT ![w] = to] /\ domain' = domain
        <3>1. CASE RUnlock(w)
            BY <3>1 DEF RUnlock, Transition, Pc
        <3>2. CASE DoubleCheck(w)
            BY <3>2 DEF DoubleCheck, Transition, Pc
        <3>3. CASE RLock(w) \/ ReadMap(w) \/ Announce(w) \/ Lock(w)
            BY <3>3 DEF RLock, ReadMap, Announce, Lock, Transition, Pc
        <3>4. CASE Create(w) \/ Unlock(w) \/ GiveUp(w)
            BY <3>4 DEF Create, Unlock, GiveUp, Transition, Pc
        <3> QED BY <1>4, <3>1, <3>2, <3>3, <3>4 DEF Looking
    <2>2. \A e \in Domains : Inside(e)' = Inside(e)
        BY <2>1, InsideKept
    <2> QED BY <2>2
<1>5. CASE UNCHANGED vars
    BY <1>5 DEF vars, Inside
<1>6. CASE Next
    <2>1. \A w \in Workers : domain[w] \in Domains
        BY DEF TypeOK
    <2> QED BY <1>1, <1>2, <1>3, <1>4, <1>6, <2>1 DEF Next, Limiter!Next
<1> QED BY <1>5, <1>6

\* All workers of a domain share one limit, although each of them may be the one
\* to create its semaphore (executor.go:129-138, 313-333).
THEOREM LimiterImplemented == Spec => ImplementsLimiter
<1>1. Init => Limiter!Init
    BY DEF Init, Limiter!Init, Inside
<1>2. TypeOK /\ SemInv /\ [Next]_vars
        => [Limiter!Next]_([d \in Domains |-> Inside(d)])
    BY StepImplementsLimiter DEF Inv
<1>3. Spec => [](TypeOK /\ SemInv)
    BY SemaphoresConsistent
<1> QED BY <1>1, <1>2, <1>3, PTL DEF Spec, ImplementsLimiter, Limiter!Spec
=============================================================================
