-------------------------- MODULE HttpServerProofs --------------------------
(***************************************************************************)
(* The HTTP server's properties for any number of connections and IDs and  *)
(* for any requests: what a handler has come to tells what its request     *)
(* has passed, and that it has changed nothing so far.                     *)
(***************************************************************************)
EXTENDS HttpServer, TLAPS

StoreCalls == {"Ping", "CreateJob", "Lookup", "GetJob", "DeleteJob"}

Effects == {"none", "created", "deleted"}

HttpTypeOK ==
    /\ req = [c \in Conns |-> req[c]]
    /\ pc \in [Conns -> {"idle"} \cup StoreCalls]
    /\ answer = [c \in Conns |-> answer[c]]
    /\ effect \in [Conns -> Effects]

\* What is known of the request of c before its next store call.
Passed(c) ==
    /\ req[c] \in Requests
    /\ Authorized(req[c]) /\ Routed(req[c])
    /\ effect[c] = "none"
    /\ answer[c].status = 0
    /\ pc[c] = "Ping" => req[c].path = "/health"
    /\ pc[c] = "CreateJob" => Creates(req[c]) /\ Valid(req[c])
    /\ pc[c] = "GetJob" => req[c].method = "GET"
    /\ pc[c] \in {"Lookup", "DeleteJob"} => req[c].method = "DELETE"

\* The answer to a request with this method is true of its effect e.
IsTrue(status, method, e) ==
    /\ status = 201 => e = "created"
    /\ status = 200 /\ method = "DELETE" => e = "deleted"
    /\ status \in 400 .. 499 => e = "none"

\* What is known of connection c.
ConnInv(c) ==
    /\ pc[c] # "idle" => Passed(c)
    /\ IsTrue(answer[c].status, req[c].method, effect[c])

\* The inductive invariant of the theorems below.
HttpInv ==
    /\ HttpTypeOK
    /\ \A c \in Conns : ConnInv(c)
    /\ StoredJobsAreValid

-----------------------------------------------------------------------------

\* The routes tell apart what the handlers are told apart by.
LEMMA RoutesDiffer ==
    ASSUME NEW r, Routed(r)
    PROVE  /\ r.path = "/health" => r.method = "GET"
           /\ r.method = "POST" => r.path # "/health"
           /\ r.method = "DELETE" => r.path # "/health"
           /\ r.method \in {"GET", "POST", "DELETE"}
BY DEF Routed, Routes

\* What validation lets through is what the scheduler and the executor rely on.
LEMMA NewJobIsValid ==
    ASSUME NEW r \in Requests, Valid(r)
    PROVE  Model!ValidRequest(NewJob(r))
<1>1. CASE r.body.retry = <<>>
    BY <1>1, RequestsAssumption
       DEF NewJob, DefaultRetryConfig, Valid, Model!ValidRequest, Model!JobType
<1>2. CASE r.body.retry # <<>>
    <2>1. /\ r.body.retry[1].max_attempts \in Nat \ {0}
          /\ r.body.retry[1].backoff_base_ms \in Nat \ {0}
        BY <1>2, RequestsAssumption DEF Valid, RetryValid
    <2> QED BY <1>2, <2>1, RequestsAssumption
            DEF NewJob, Valid, Model!ValidRequest, Model!JobType
<1> QED BY <1>1, <1>2

LEMMA HttpInit == Init => HttpInv
<1> SUFFICES ASSUME Init
             PROVE  HttpInv
    OBVIOUS
<1>1. HttpTypeOK
    BY DEF Init, HttpTypeOK, StoreCalls, Effects
<1>2. \A c \in Conns : ConnInv(c)
    BY DEF Init, ConnInv, NoAnswer, IsTrue
<1>3. StoredJobsAreValid
    BY DEF Init, StoredJobsAreValid
<1> QED BY <1>1, <1>2, <1>3 DEF HttpInv

\* A step of one connection leaves the others as they are.
OnlyConn(c) ==
    \A d \in Conns \ {c} :
        req'[d] = req[d] /\ pc'[d] = pc[d] /\ answer'[d] = answer[d] /\ effect'[d] = effect[d]

LEMMA OneConn ==
    ASSUME HttpInv, NEW c \in Conns, HttpTypeOK', OnlyConn(c), ConnInv(c)', StoredJobsAreValid'
    PROVE  HttpInv'
<1>1. ASSUME NEW d \in Conns \ {c}
      PROVE  ConnInv(d)'
    BY <1>1 DEF HttpInv, OnlyConn, ConnInv, Passed
<1> QED BY <1>1 DEF HttpInv

-----------------------------------------------------------------------------

LEMMA ArriveHttp ==
    ASSUME HttpInv, NEW c \in Conns, Arrive(c)
    PROVE  HttpInv'
<1>1. PICK r \in Requests :
        /\ req' = [req EXCEPT ![c] = r]
        /\ Reject(c, r) \/ NotRouted(c, r) \/ Invalid(c, r) \/ Handle(c, r)
    BY DEF Arrive
<1>2. effect' = [effect EXCEPT ![c] = "none"] /\ built' = built
    BY DEF Arrive
<1>3. HttpTypeOK
    BY DEF HttpInv
<1>4. StoredJobsAreValid'
    BY <1>2 DEF HttpInv, StoredJobsAreValid
<1>5. CASE Reject(c, r) \/ NotRouted(c, r) \/ Invalid(c, r)
    <2>1. PICK status \in {400, 401, 404, 405}, server \in BOOLEAN, type \in {"json", "text"} :
            Respond(c, status, server, type)
        <3>1. CASE Reject(c, r)
            BY <3>1 DEF Reject
        <3>2. CASE NotRouted(c, r)
            <4>1. Respond(c, 405, TRUE, "text") \/ Respond(c, 404, TRUE, "text")
                BY <3>2 DEF NotRouted
            <4> QED BY <4>1
        <3>3. CASE Invalid(c, r)
            BY <3>3 DEF Invalid, WriteJSON
        <3> QED BY <1>5, <3>1, <3>2, <3>3
    <2>2. HttpTypeOK' /\ OnlyConn(c)
        <3>1. HttpTypeOK'
            BY <1>1, <1>2, <1>3, <2>1 DEF Respond, HttpTypeOK, Effects
        <3>2. OnlyConn(c)
            BY <1>1, <1>2, <1>3, <2>1 DEF Respond, HttpTypeOK, OnlyConn
        <3> QED BY <3>1, <3>2
    <2>3. pc'[c] = "idle" /\ answer'[c].status = status /\ effect'[c] = "none"
        BY <1>2, <1>3, <2>1 DEF Respond, HttpTypeOK
    <2>4. ConnInv(c)'
        BY <2>3 DEF ConnInv, IsTrue
    <2> QED BY <1>4, <2>2, <2>4, OneConn
<1>6. CASE Handle(c, r)
    <2>1. PICK call \in StoreCalls :
            /\ Forward(c, call)
            /\ call = "Ping" => r.path = "/health"
            /\ call = "CreateJob" => Creates(r)
            /\ call = "GetJob" => r.method = "GET"
            /\ call \in {"Lookup", "DeleteJob"} => r.method = "DELETE"
        <3>1. Routed(r)
            BY <1>6 DEF Handle
        <3>2. CASE r.path = "/health"
            BY <1>6, <3>2 DEF Handle, StoreCalls
        <3>3. CASE r.path # "/health" /\ Creates(r)
            BY <1>6, <3>3 DEF Handle, StoreCalls
        <3>4. CASE r.path # "/health" /\ ~Creates(r)
            BY <1>6, <3>1, <3>4, RoutesDiffer DEF Handle, StoreCalls, Creates
        <3> QED BY <3>2, <3>3, <3>4
    <2>2. Authorized(r) /\ Routed(r) /\ (Creates(r) => Valid(r))
        BY <1>6 DEF Handle
    <2>3. HttpTypeOK' /\ OnlyConn(c)
        BY <1>1, <1>2, <1>3, <2>1 DEF Forward, HttpTypeOK, OnlyConn, Effects
    <2>4. /\ req'[c] = r /\ pc'[c] = call /\ answer'[c].status = 0 /\ effect'[c] = "none"
        BY <1>1, <1>2, <1>3, <2>1 DEF Forward, HttpTypeOK, NoAnswer
    <2>5. ConnInv(c)'
        BY <2>1, <2>2, <2>4 DEF ConnInv, Passed, IsTrue
    <2> QED BY <1>4, <2>3, <2>5, OneConn
<1> QED BY <1>1, <1>5, <1>6

\* An answer of a handler that may stand beside what its request has done.
LEMMA AnswerHttp ==
    ASSUME HttpInv, NEW c \in Conns, NEW status, WriteJSON(c, status), UNCHANGED req,
           NEW e \in Effects, effect' = [effect EXCEPT ![c] = e], StoredJobsAreValid',
           IsTrue(status, req[c].method, e)
    PROVE  HttpInv'
<1>1. HttpTypeOK
    BY DEF HttpInv
<1>2. HttpTypeOK' /\ OnlyConn(c)
    BY <1>1 DEF WriteJSON, Respond, HttpTypeOK, OnlyConn
<1>3. pc'[c] = "idle" /\ answer'[c].status = status /\ effect'[c] = e /\ req'[c] = req[c]
    BY <1>1 DEF WriteJSON, Respond, HttpTypeOK
<1>4. ConnInv(c)'
    BY <1>3 DEF ConnInv
<1> QED BY <1>2, <1>4, OneConn

LEMMA CallHttp ==
    ASSUME HttpInv, NEW c \in Conns, Health(c) \/ Create(c) \/ Get(c) \/ Delete(c)
    PROVE  HttpInv'
<1>1. HttpTypeOK /\ StoredJobsAreValid
    BY DEF HttpInv
<1>2. PICK old \in Effects : effect[c] = old /\ effect = [effect EXCEPT ![c] = old]
    BY <1>1 DEF HttpTypeOK
<1>3. Passed(c) /\ UNCHANGED req
    BY DEF HttpInv, ConnInv, Health, Create, Get, Delete
<1>4. CASE Health(c)
    <2>1. PICK status \in {200, 503} : WriteJSON(c, status)
        BY <1>4 DEF Health
    <2>2. UNCHANGED <<effect, built>> /\ req[c].method = "GET"
        BY <1>3, <1>4, RoutesDiffer DEF Health, Passed
    <2>3. IsTrue(status, req[c].method, old)
        BY <2>1, <2>2 DEF IsTrue
    <2>4. StoredJobsAreValid'
        BY <1>1, <2>2 DEF StoredJobsAreValid
    <2>5. effect' = [effect EXCEPT ![c] = old]
        BY <1>2, <2>2
    <2> QED BY <1>3, <2>1, <2>3, <2>4, <2>5, AnswerHttp
<1>5. CASE Create(c)
    <2>1. PICK id \in NewIds, outcome \in WriteOutcomes :
            /\ Put(c, id, outcome)
            /\ WriteJSON(c, IF outcome = "ok" THEN 201 ELSE 500)
        BY <1>5 DEF Create
    <2>2. Model!ValidRequest(NewJob(req[c]))
        BY <1>3, <1>5, NewJobIsValid DEF Create, Passed
    <2>3. StoredJobsAreValid'
        BY <1>1, <2>1, <2>2 DEF Put, StoredJobsAreValid
    <2>4. PICK e \in Effects :
            /\ effect' = [effect EXCEPT ![c] = e]
            /\ outcome = "ok" => e = "created"
        BY <1>2, <2>1 DEF Put, Effects
    <2>5. CASE outcome = "ok"
        <3>1. WriteJSON(c, 201)
            BY <2>1, <2>5
        <3>2. IsTrue(201, req[c].method, e)
            BY <2>4, <2>5 DEF IsTrue
        <3> QED BY <1>3, <2>3, <2>4, <3>1, <3>2, AnswerHttp
    <2>6. CASE outcome # "ok"
        <3>1. WriteJSON(c, 500)
            BY <2>1, <2>6
        <3>2. IsTrue(500, req[c].method, e)
            BY DEF IsTrue
        <3> QED BY <1>3, <2>3, <2>4, <3>1, <3>2, AnswerHttp
    <2> QED BY <2>5, <2>6
<1>6. CASE Get(c)
    <2>1. UNCHANGED <<effect, built>> /\ effect[c] = "none"
        BY <1>3, <1>6 DEF Get, Passed
    <2>2. StoredJobsAreValid' /\ effect' = [effect EXCEPT ![c] = old]
        BY <1>1, <1>2, <2>1 DEF StoredJobsAreValid
    <2>3. CASE WriteJSON(c, 500) \/ WriteJSON(c, 404)
        <3>1. PICK status \in {404, 500} : WriteJSON(c, status)
            BY <2>3
        <3>2. IsTrue(status, req[c].method, old)
            BY <1>2, <2>1, <3>1 DEF IsTrue
        <3> QED BY <1>3, <2>2, <3>1, <3>2, AnswerHttp
    <2>4. CASE WriteJSON(c, 200) /\ pc[c] = "GetJob"
        <3>1. req[c].method = "GET"
            BY <1>3, <2>4 DEF Passed
        <3>2. IsTrue(200, req[c].method, old)
            BY <3>1 DEF IsTrue
        <3> QED BY <1>3, <2>2, <2>4, <3>2, AnswerHttp
    <2>5. CASE Forward(c, "DeleteJob") /\ pc[c] # "GetJob"
        <3>1. HttpTypeOK' /\ OnlyConn(c)
            BY <1>1, <1>3, <2>1, <2>5 DEF Forward, HttpTypeOK, OnlyConn, StoreCalls
        <3>2. pc'[c] = "DeleteJob" /\ answer'[c].status = 0 /\ req'[c] = req[c]
            BY <1>1, <1>3, <2>5 DEF Forward, HttpTypeOK, NoAnswer
        <3>3. req[c].method = "DELETE"
            BY <1>3, <1>6, <2>5 DEF Get, Passed
        <3>4. ConnInv(c)'
            BY <1>3, <2>1, <3>2, <3>3 DEF ConnInv, Passed, IsTrue
        <3> QED BY <2>2, <3>1, <3>4, OneConn
    <2> QED BY <1>6, <2>3, <2>4, <2>5 DEF Get
<1>7. CASE Delete(c)
    <2>1. PICK outcome \in WriteOutcomes :
            /\ IF outcome = "rejected"
               THEN UNCHANGED <<effect, built>>
               ELSE /\ effect' = [effect EXCEPT ![c] = "deleted"]
                    /\ built' = [id \in DOMAIN built \ {req[c].id} |-> built[id]]
            /\ WriteJSON(c, IF outcome = "ok" THEN 200 ELSE 500)
        BY <1>7 DEF Delete
    <2>2. StoredJobsAreValid'
        BY <1>1, <2>1 DEF StoredJobsAreValid
    <2>3. PICK e \in Effects :
            /\ effect' = [effect EXCEPT ![c] = e]
            /\ outcome = "ok" => e = "deleted"
        BY <1>2, <2>1 DEF Effects
    <2>4. CASE outcome = "ok"
        <3>1. WriteJSON(c, 200)
            BY <2>1, <2>4
        <3>2. IsTrue(200, req[c].method, e)
            BY <2>3, <2>4 DEF IsTrue
        <3> QED BY <1>3, <2>2, <2>3, <3>1, <3>2, AnswerHttp
    <2>5. CASE outcome # "ok"
        <3>1. WriteJSON(c, 500)
            BY <2>1, <2>5
        <3>2. IsTrue(500, req[c].method, e)
            BY DEF IsTrue
        <3> QED BY <1>3, <2>2, <2>3, <3>1, <3>2, AnswerHttp
    <2> QED BY <2>4, <2>5
<1> QED BY <1>4, <1>5, <1>6, <1>7

LEMMA HttpNext ==
    ASSUME HttpInv, [Next]_vars
    PROVE  HttpInv'
<1>1. ASSUME NEW c \in Conns, Arrive(c)
      PROVE  HttpInv'
    BY <1>1, ArriveHttp
<1>2. ASSUME NEW c \in Conns, Health(c) \/ Create(c) \/ Get(c) \/ Delete(c)
      PROVE  HttpInv'
    BY <1>2, CallHttp
<1>3. CASE UNCHANGED vars
    BY <1>3 DEF vars, HttpInv, HttpTypeOK, ConnInv, Passed, StoredJobsAreValid
<1> QED BY <1>1, <1>2, <1>3 DEF Next

-----------------------------------------------------------------------------

\* The inductive invariant holds for any connections, IDs and requests.
THEOREM HttpHolds == Spec => []HttpInv
<1>1. HttpInv /\ [Next]_vars => HttpInv'
    BY HttpNext
<1> QED BY <1>1, HttpInit, PTL DEF Spec

\* Only jobs the scheduler and executor can run reach the store (job.go:143-194).
THEOREM OnlyValidJobsAreStored == Spec => []StoredJobsAreValid
<1>1. HttpInv => StoredJobsAreValid
    BY DEF HttpInv
<1> QED BY <1>1, HttpHolds, PTL

\* No interleaving of requests makes an answer untrue (handlers.go:29-141).
THEOREM NoAnswerLies == Spec => []AnswersAreTrue
<1>1. HttpInv => AnswersAreTrue
    BY DEF HttpInv, ConnInv, IsTrue, AnswersAreTrue
<1> QED BY <1>1, HttpHolds, PTL

\* Whatever the others do, the store is changed by the handler of a request with the
\* token, once, and as that request says (middleware.go:24-53, handlers.go:29-141).
THEOREM TokenGuardsTheStore == Spec => ChangesAreAuthorized
<1> DEFINE Allowed ==
        \E c \in Conns :
            /\ req[c].auth = "bearer token" /\ Routed(req[c])
            /\ effect[c] = "none"
            /\ Adds(c) \/ Removes(c)
            /\ req' = req
            /\ \A other \in Conns \ {c} :
                    pc'[other] = pc[other] /\ effect'[other] = effect[other]
<1>1. ASSUME HttpInv, NEW c \in Conns, Create(c), built' # built
      PROVE  Allowed
    <2>1. /\ pc \in [Conns -> {"idle"} \cup StoreCalls] /\ effect \in [Conns -> Effects]
          /\ Passed(c) /\ pc[c] = "CreateJob" /\ req' = req
        BY <1>1 DEF Create, HttpInv, HttpTypeOK, ConnInv
    <2>2. PICK id \in NewIds, outcome \in WriteOutcomes :
            Put(c, id, outcome) /\ WriteJSON(c, IF outcome = "ok" THEN 201 ELSE 500)
        BY <1>1 DEF Create
    <2>3. Creates(req[c]) /\ Routed(req[c]) /\ req[c].auth = "bearer token"
        BY <2>1, RoutesDiffer DEF Passed, Creates, Authorized
    <2>4. /\ effect' = [effect EXCEPT ![c] = "created"]
          /\ built' = [other \in DOMAIN built \cup {id} |->
                        IF other = id THEN NewJob(req[c]) ELSE built[other]]
        BY <1>1, <2>2 DEF Put
    <2>5. id \in Ids \ DOMAIN built
        BY DEF NewIds
    <2>6. Adds(c)
        BY <2>1, <2>3, <2>4, <2>5 DEF Adds
    <2>7. \A other \in Conns \ {c} : pc'[other] = pc[other] /\ effect'[other] = effect[other]
        BY <2>1, <2>2, <2>4 DEF WriteJSON, Respond
    <2> QED BY <2>1, <2>3, <2>6, <2>7 DEF Passed
<1>2. ASSUME HttpInv, NEW c \in Conns, Delete(c), built' # built
      PROVE  Allowed
    <2>1. /\ pc \in [Conns -> {"idle"} \cup StoreCalls] /\ effect \in [Conns -> Effects]
          /\ Passed(c) /\ pc[c] = "DeleteJob" /\ req' = req
        BY <1>2 DEF Delete, HttpInv, HttpTypeOK, ConnInv
    <2>2. PICK status \in {200, 500} : WriteJSON(c, status)
        BY <1>2 DEF Delete
    <2>3. req[c].method = "DELETE" /\ Routed(req[c]) /\ req[c].auth = "bearer token"
        BY <2>1, RoutesDiffer DEF Passed, Authorized
    <2>4. /\ effect' = [effect EXCEPT ![c] = "deleted"]
          /\ built' = [id \in DOMAIN built \ {req[c].id} |-> built[id]]
        BY <1>2 DEF Delete
    <2>5. Removes(c)
        BY <2>1, <2>3, <2>4 DEF Removes
    <2>6. \A other \in Conns \ {c} : pc'[other] = pc[other] /\ effect'[other] = effect[other]
        BY <2>1, <2>2, <2>4 DEF WriteJSON, Respond
    <2> QED BY <2>1, <2>3, <2>5, <2>6 DEF Passed
<1>3. HttpInv /\ [Next]_vars => [built' # built => Allowed]_vars
    BY <1>1, <1>2 DEF Next, Arrive, Health, Get, vars
<1> QED BY <1>3, HttpHolds, PTL DEF Spec, ChangesAreAuthorized
=============================================================================
