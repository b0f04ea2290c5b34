------------------------------ MODULE HttpServer ------------------------------
(***************************************************************************)
(* The HTTP server of internal/httpapi: the middleware chain, the routes,  *)
(* decoding and validation, and the answers of the five handlers, served   *)
(* to several connections over one store.  What happens to a stored job    *)
(* otherwise is TickHook.tla's concern.                                    *)
(*                                                                         *)
(* Nothing a request does before its first store call or between two of    *)
(* them can be seen by others, so each store call is one step, with what   *)
(* leads up to the first one in a step of its own.                         *)
(*                                                                         *)
(* Bound: clients do not ask for more jobs than there are Ids; the ID of a *)
(* deleted job is handed out again, but not while a request names it.      *)
(***************************************************************************)
EXTENDS Integers, FiniteSets

CONSTANTS
    Conns,          \* client connections
    Ids,            \* the job IDs that may be handed out
    Requests,       \* the requests a client may make
    StoreFaults     \* as in RedisStore

\* What decoding leaves in a body: the numbers are Go ints.
ASSUME RequestsAssumption ==
    \A r \in Requests :
        /\ r.body.interval_ms \in Int
        /\ r.body.retry # <<>> =>
                r.body.retry[1].max_attempts \in Int /\ r.body.retry[1].backoff_base_ms \in Int

VARIABLES
    req,            \* req[c]: the request being served, else the last one
    pc,             \* pc[c]: the store call its handler has come to
    answer,         \* answer[c]: what was answered
    effect,         \* history: what the request has changed in the store
    built           \* built[id]: the job stored under id

vars == <<req, pc, answer, effect, built>>

Model == INSTANCE JobModel WITH
    Jobs <- {}, Request <- <<>>, Absent <- "absent", MaxBackoffMs <- 0, JitterMaxMs <- 0

-----------------------------------------------------------------------------
(* Requests.  A body has the fields parses (it is JSON of the right types), *)
(* time (execute_at or start_at is there), interval_ms, url, method (both  *)
(* acceptable or not), webhookBody, and retry, <<>> when it is missing.    *)

Routes == {<<"GET", "/health">>, <<"POST", "/v1/jobs/one-shot">>,
           <<"POST", "/v1/jobs/recurring">>, <<"GET", "/v1/jobs/{job_id}">>,
           <<"DELETE", "/v1/jobs/{job_id}">>}

Routed(r) == <<r.method, r.path>> \in Routes

\* A plausible slip: no return after the 401 has been written.
AuthorizedAlways(r) == TRUE

\* authMiddleware: the health check, or "Bearer" in any case and the token.
Authorized(r) == r.path = "/health" \/ r.auth = "bearer token"

Creates(r) == r.method = "POST" /\ Routed(r)

Recurs(r) == r.path = "/v1/jobs/recurring"

\* json.Decode into a CreateOneShotRequest or CreateRecurringRequest, whose
\* Webhook.Body is a map.
Decodes(body) == body.parses /\ body.webhookBody \in {"none", "object"}

WebhookValid(body) == body.url /\ body.method

\* A plausible slip: only max_attempts is checked.
AttemptsValid(retry) ==
    retry # <<>> => retry[1].max_attempts >= 1

\* RetryConfig.Validate, when there is one; a field that is missing is 0.
RetryValid(retry) ==
    retry # <<>> => retry[1].max_attempts >= 1 /\ retry[1].backoff_base_ms > 0

\* CreateOneShotRequest.Validate and CreateRecurringRequest.Validate.
Valid(r) ==
    /\ r.body.time
    /\ Recurs(r) => r.body.interval_ms > 0
    /\ WebhookValid(r.body)
    /\ RetryValid(r.body.retry)

DefaultRetryConfig == [max_attempts |-> 3, backoff_base_ms |-> 1000]

\* NewOneShotJob and NewRecurringJob: the part of the job JobModel calls its request.
NewJob(r) ==
    LET retry == IF r.body.retry = <<>> THEN DefaultRetryConfig ELSE r.body.retry[1]
    IN  [type |-> IF Recurs(r) THEN "recurring" ELSE "one_shot",
         dueAtMs |-> 0,
         intervalMs |-> IF Recurs(r) THEN r.body.interval_ms ELSE 0,
         maxAttempts |-> retry.max_attempts,
         backoffBaseMs |-> retry.backoff_base_ms]

-----------------------------------------------------------------------------

NoAnswer == [status |-> 0, server |-> FALSE, type |-> "none"]

Init ==
    /\ req = [c \in Conns |-> CHOOSE r \in Requests : TRUE]
    /\ pc = [c \in Conns |-> "idle"]
    /\ answer = [c \in Conns |-> NoAnswer]
    /\ effect = [c \in Conns |-> "none"]
    /\ built = [id \in {} |-> DefaultRetryConfig]

Respond(c, status, server, type) ==
    /\ pc' = [pc EXCEPT ![c] = "idle"]
    /\ answer' = [answer EXCEPT ![c] = [status |-> status, server |-> server, type |-> type]]

\* writeJSON and writeError in a handler: the Server header has been set.
WriteJSON(c, status) == Respond(c, status, TRUE, "json")

Forward(c, call) ==
    /\ pc' = [pc EXCEPT ![c] = call]
    /\ answer' = [answer EXCEPT ![c] = NoAnswer]

\* authMiddleware answers; serverHeaderMiddleware comes after it in the chain.
Reject(c, r) == ~Authorized(r) /\ Respond(c, 401, FALSE, "json")

\* ServeMux answers: 405 for a path it knows with another method, else 404.
NotRouted(c, r) ==
    /\ Authorized(r) /\ ~Routed(r)
    /\ LET status == IF \E route \in Routes : route[2] = r.path THEN 405 ELSE 404
       IN  Respond(c, status, TRUE, "text")

Invalid(c, r) ==
    /\ Authorized(r) /\ Creates(r)
    /\ ~Decodes(r.body) \/ ~Valid(r)
    /\ WriteJSON(c, 400)

Creating == {c \in Conns : pc[c] = "CreateJob"}

RoomForOne == Cardinality(DOMAIN built) + Cardinality(Creating) < Cardinality(Ids)

\* uuid.New().
NewIds ==
    {id \in Ids \ DOMAIN built :
        \A c \in Conns : pc[c] \in {"Lookup", "GetJob", "DeleteJob"} => req[c].id # id}

\* A handler comes to its first store call.
Handle(c, r) ==
    /\ Authorized(r) /\ Routed(r)
    /\ Creates(r) => Decodes(r.body) /\ Valid(r) /\ RoomForOne
    /\ Forward(c, CASE r.path = "/health" -> "Ping"
                    [] Creates(r) -> "CreateJob"
                    [] r.method = "GET" -> "GetJob"
                    [] r.method = "DELETE" -> "Lookup")

\* A request arrives and goes through the chain.
Arrive(c) ==
    /\ pc[c] = "idle"
    /\ \E r \in Requests :
        /\ req' = [req EXCEPT ![c] = r]
        /\ Reject(c, r) \/ NotRouted(c, r) \/ Invalid(c, r) \/ Handle(c, r)
    /\ effect' = [effect EXCEPT ![c] = "none"]
    /\ UNCHANGED built

ReadOutcomes == {"ok"} \cup (StoreFaults \ {"unacked"})

WriteOutcomes == {"ok"} \cup StoreFaults

\* handleHealth.
Health(c) ==
    /\ pc[c] = "Ping"
    /\ \E outcome \in ReadOutcomes : WriteJSON(c, IF outcome = "ok" THEN 200 ELSE 503)
    /\ UNCHANGED <<req, effect, built>>

Put(c, id, outcome) ==
    IF outcome = "rejected"
    THEN UNCHANGED <<effect, built>>
    ELSE /\ effect' = [effect EXCEPT ![c] = "created"]
         /\ built' = [other \in DOMAIN built \cup {id} |->
                        IF other = id THEN NewJob(req[c]) ELSE built[other]]

\* A plausible slip: no return after the 500.
CreateAnsweredAnyway(c) ==
    /\ pc[c] = "CreateJob"
    /\ \E id \in NewIds, outcome \in WriteOutcomes :
        Put(c, id, outcome) /\ WriteJSON(c, 201)
    /\ UNCHANGED req

\* handleCreateOneShot and handleCreateRecurring, from CreateJob on.  The ID is new.
Create(c) ==
    /\ pc[c] = "CreateJob"
    /\ \E id \in NewIds, outcome \in WriteOutcomes :
        /\ Put(c, id, outcome)
        /\ WriteJSON(c, IF outcome = "ok" THEN 201 ELSE 500)
    /\ UNCHANGED req

\* handleGetJob, and the first half of handleDeleteJob.
Get(c) ==
    /\ pc[c] \in {"GetJob", "Lookup"}
    /\ \E outcome \in ReadOutcomes :
        \/ outcome = "rejected" /\ WriteJSON(c, 500)
        \/ outcome = "ok" /\ req[c].id \notin DOMAIN built /\ WriteJSON(c, 404)
        \/ /\ outcome = "ok" /\ req[c].id \in DOMAIN built
           /\ IF pc[c] = "GetJob" THEN WriteJSON(c, 200) ELSE Forward(c, "DeleteJob")
    /\ UNCHANGED <<req, effect, built>>

\* The second half of handleDeleteJob.
Delete(c) ==
    /\ pc[c] = "DeleteJob"
    /\ \E outcome \in WriteOutcomes :
        /\ IF outcome = "rejected"
           THEN UNCHANGED <<effect, built>>
           ELSE /\ effect' = [effect EXCEPT ![c] = "deleted"]
                /\ built' = [id \in DOMAIN built \ {req[c].id} |-> built[id]]
        /\ WriteJSON(c, IF outcome = "ok" THEN 200 ELSE 500)
    /\ UNCHANGED req

Next ==
    \E c \in Conns : Arrive(c) \/ Health(c) \/ Create(c) \/ Get(c) \/ Delete(c)

Spec == Init /\ [][Next]_vars

-----------------------------------------------------------------------------

\* Safety.  Whatever a client sends, a job that reaches the store is one scheduler
\* and executor are made for: the assumption the rest of the model starts from holds
\* (job.go:143-194; a job tried no time at all or with an interval of 0 has no end).
StoredJobsAreValid == \A id \in DOMAIN built : Model!ValidRequest(built[id])

\* What the handler of c may do to the store in this step, and nobody else.
Adds(c) ==
    /\ pc[c] = "CreateJob" /\ Creates(req[c]) /\ effect'[c] = "created"
    /\ \E id \in Ids \ DOMAIN built :
        built' = [other \in DOMAIN built \cup {id} |->
                    IF other = id THEN NewJob(req[c]) ELSE built[other]]

Removes(c) ==
    /\ pc[c] = "DeleteJob" /\ req[c].method = "DELETE" /\ effect'[c] = "deleted"
    /\ built' = [id \in DOMAIN built \ {req[c].id} |-> built[id]]

\* Safety.  A change of the store is the doing of one connection, whose request has
\* the token and a route and has not changed anything before: it adds the job asked
\* for under an unused ID, or removes the job that was named, and leaves every other
\* job and request alone (server.go:34-38, middleware.go:24-53, handlers.go:29-141).
ChangesAreAuthorized ==
    [][built' # built =>
        \E c \in Conns :
            /\ req[c].auth = "bearer token" /\ Routed(req[c])
            /\ effect[c] = "none"
            /\ Adds(c) \/ Removes(c)
            /\ req' = req
            /\ \A other \in Conns \ {c} :
                    pc'[other] = pc[other] /\ effect'[other] = effect[other]]_vars

\* Safety.  An answer is the truth: a client that is told of success has had it, and
\* one that is told its request was bad has changed nothing.  (A 500 says neither:
\* handlers.go:46, 133.)
AnswersAreTrue ==
    \A c \in Conns :
        /\ answer[c].status = 201 => effect[c] = "created"
        /\ answer[c].status = 200 /\ req[c].method = "DELETE" => effect[c] = "deleted"
        /\ answer[c].status \in 400 .. 499 => effect[c] = "none"
=============================================================================
