------------------------------- MODULE Payload -------------------------------
(***************************************************************************)
(* What becomes of the webhook a client describes: decoded from JSON,      *)
(* validated, stored as a hash, loaded again for every attempt, sent, and  *)
(* written back.                                                           *)
(*                                                                         *)
(* A header key is a pair of the canonical name net/http gives it and a    *)
(* spelling; its value is the key itself.  X-Custom stands for any name    *)
(* net/http does not write on its own (as it does Host or Content-Length). *)
(* A body is <<>> (a nil map) or <<numbers>>, an object whose members have *)
(* these values.                                                           *)
(***************************************************************************)
EXTENDS Durations, Sequences

CONSTANTS
    Names,          \* canonical header names
    Spellings,      \* ways to write a header name
    Bodies,         \* the bodies a client may send
    Timeouts,       \* the values of timeout_ms a client may send
    DefaultTimeoutMs

Automatic == {"X-Job-Id", "Idempotency-Key"}

\* What Round is defined for.
Numbers == - (2 ^ IntBits) .. 2 ^ IntBits

ASSUME PayloadAssumption ==
    /\ Automatic \cup {"Content-Type"} \subseteq Names
    /\ \A body \in Bodies : body \in Seq(SUBSET Numbers) /\ Len(body) <= 1
    /\ Timeouts \subseteq Int64
    /\ DefaultTimeoutMs \in 1 .. MaxInt

VARIABLES
    phase,          \* "given", "stored", "loaded" or "attempted"
    given,          \* the "webhook" object of the client's POST
    hash,           \* the fields of the job in Redis
    job,            \* the *model.Job in memory
    request,        \* the last request doWebhook made
    timeout         \* its time.Duration

payloadVars == <<phase, given, hash, job, request, timeout>>

\* A key in the order of map iteration that comes last, for each name.
Iterations == [Names -> Spellings]

Webhooks ==
    [headers : SUBSET (Names \X Spellings), body : Bodies, timeoutMs : Timeouts]

Nothing == [headers |-> {}, body |-> <<>>, timeoutMs |-> 0]

NoRequest == [headers |-> [name \in Names |-> <<>>], body |-> <<>>, sent |-> FALSE]

PayloadInit ==
    /\ phase = "given"
    /\ given \in Webhooks
    /\ hash = [field \in {} |-> 0]
    /\ job = Nothing
    /\ request = NoRequest
    /\ timeout = 0

\* encoding/json: a number in a map[string]any is a float64.
DecodeJSON(body) ==
    [i \in 1 .. Len(body) |-> {ToFloat(n) : n \in body[i]}]

\* WebhookConfig.Validate as far as it changes something.
Validated(webhook) ==
    [webhook EXCEPT !.timeoutMs = IF @ <= 0 THEN DefaultTimeoutMs ELSE @]

\* A plausible slip: len(job.Body) > 0 instead of job.Body != nil.
FieldsOfNonEmpty(rec) ==
    {"timeout_ms"} \cup (IF rec.headers = {} THEN {} ELSE {"headers_json"})
                   \cup (IF rec.body \in {<<>>, <<{}>>} THEN {} ELSE {"body_json"})

\* The fields of the hash serializeJob fills: nil maps have none.
Fields(rec) ==
    {"timeout_ms"} \cup (IF rec.headers = {} THEN {} ELSE {"headers_json"})
                   \cup (IF rec.body = <<>> THEN {} ELSE {"body_json"})

Serialize(rec) ==
    [field \in Fields(rec) |->
        CASE field = "timeout_ms" -> rec.timeoutMs
          [] field = "headers_json" -> rec.headers
          [] field = "body_json" -> Head(rec.body)]

Deserialize(fields) ==
    [headers |-> IF "headers_json" \in DOMAIN fields THEN fields["headers_json"] ELSE {},
     body |-> IF "body_json" \in DOMAIN fields THEN DecodeJSON(<<fields["body_json"]>>)
                                               ELSE <<>>,
     timeoutMs |-> fields["timeout_ms"]]

\* HSET adds and replaces fields.
HSet(rec) ==
    hash' = [field \in Fields(rec) \cup DOMAIN hash |->
                IF field \in Fields(rec) THEN Serialize(rec)[field] ELSE hash[field]]

\* handleCreateOneShot and handleCreateRecurring, down to CreateJob.
Create ==
    /\ phase = "given"
    /\ job' = Validated([given EXCEPT !.body = DecodeJSON(@)])
    /\ HSet(job')
    /\ phase' = "stored"
    /\ UNCHANGED <<given, request, timeout>>

\* GetJob.
Load ==
    /\ phase = "stored"
    /\ job' = Deserialize(hash)
    /\ phase' = "loaded"
    /\ UNCHANGED <<given, hash, request, timeout>>

\* The values the keys of job.Headers leave: of several spellings of a name, which are
\* one key to Set, the one iterated over last.
UserHeaders(last) ==
    [name \in {key[1] : key \in job.headers} |->
        LET keys == {key \in job.headers : key[1] = name}
        IN  IF <<name, last[name]>> \in keys THEN <<name, last[name]>>
            ELSE CHOOSE key \in keys : TRUE]

ContentType ==
    [name \in IF job.body = <<>> THEN {} ELSE {"Content-Type"} |-> <<"json">>]

AutomaticHeaders == [name \in Automatic |-> <<"id">>]

\* http.Header.Set for each of these names: it replaces what is there.
SetAll(header, values) ==
    [name \in Names |-> IF name \in DOMAIN values THEN values[name] ELSE header[name]]

\* A plausible slip: the user's headers are added last.
HeaderUserLast(last) ==
    SetAll(SetAll(SetAll(NoRequest.headers, ContentType), AutomaticHeaders), UserHeaders(last))

\* The three passes, in their order.
Header(last) ==
    SetAll(SetAll(SetAll(NoRequest.headers, ContentType), UserHeaders(last)), AutomaticHeaders)

\* http.NewRequest and Do: with a deadline that has passed nothing is sent.
Request(last) == [headers |-> Header(last), body |-> job.body, sent |-> timeout' > 0]

\* A plausible slip: the automatic headers are put into job.Headers.
DoWebhookInPlace ==
    /\ phase = "loaded"
    /\ job' = [job EXCEPT !.headers = @ \cup Automatic \X {CHOOSE s \in Spellings : TRUE}]
    /\ timeout' = Duration(job.timeoutMs)
    /\ \E last \in Iterations : request' = Request(last)
    /\ phase' = "attempted"
    /\ UNCHANGED <<given, hash>>

\* doWebhook.
DoWebhook ==
    /\ phase = "loaded"
    /\ timeout' = Duration(job.timeoutMs)
    /\ \E last \in Iterations : request' = Request(last)
    /\ phase' = "attempted"
    /\ UNCHANGED <<given, hash, job>>

\* UpdateJob, for a retry or the next run.
Update ==
    /\ phase = "attempted"
    /\ HSet(job)
    /\ phase' = "stored"
    /\ UNCHANGED <<given, job, request, timeout>>

PayloadNext == Create \/ Load \/ DoWebhook \/ Update

PayloadSpec == PayloadInit /\ [][PayloadNext]_payloadVars

-----------------------------------------------------------------------------

Attempted == phase = "attempted"

\* Safety.  However often a job is stored and loaded, what is sent is what the client
\* gave: the body, if its numbers are floats, every header that is not automatic
\* and has one spelling, and the timeout, if it fits a Duration.  A body that is
\* empty is not one that is missing, and is labelled unless the client labels it.
\* The automatic headers carry the job's ID, in whatever spelling the client has
\* tried to give them ("these cannot be overridden", executor.go:200).
RequestIsAsGiven ==
    Attempted =>
        /\ (\A i \in 1 .. Len(given.body) : given.body[i] \subseteq - MaxExact .. MaxExact)
                => request.body = given.body
        /\ Len(request.body) = Len(given.body)
        /\ \A key \in given.headers :
                \/ key[1] \in Automatic
                \/ request.headers[key[1]] = key
                \/ \E other \in given.headers : other # key /\ other[1] = key[1]
        /\ \A name \in Automatic : request.headers[name] = <<"id">>
        /\ given.body # <<>> /\ (\A key \in given.headers : key[1] # "Content-Type")
                => request.headers["Content-Type"] = <<"json">>
        /\ given.timeoutMs \in 1 .. MaxInt \div NsPerMs
                => request.sent /\ timeout = given.timeoutMs * NsPerMs

\* Safety.  The first write decides: no load, attempt or later write changes what is
\* stored of the webhook.  Decoding a body again does not round it further, a field
\* left out of a write has nothing to lose, and no attempt leaves a trace in the maps
\* the next write takes from the job (redis.go:171-289, executor.go:190-203).
StoredWebhookIsStable == [][phase # "given" => hash' = hash]_payloadVars
=============================================================================
