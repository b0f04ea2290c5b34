------------------------------- MODULE Delivery -------------------------------
(***************************************************************************)
(* A TickHook process and the receivers of its webhooks.  A request may    *)
(* reach its receiver in time, after TickHook has given it up (timeout,    *)
(* shutdown, crash), or never, and an answer may come too late.            *)
(*                                                                         *)
(* The receivers are those of docs/API.md:454-479: they keep the answer to *)
(* an Idempotency-Key and return it to any later request with that key     *)
(* without processing it.  (Their time-to-live of 24 hours is taken to be  *)
(* longer than everything here.)                                           *)
(***************************************************************************)
EXTENDS TickHook, Bags

CONSTANTS
    Answers,        \* the status codes receivers answer with
    Remembered      \* those a receiver keeps

\* What http.Client.Do returns: it reads on after an informational answer other
\* than 101.
ASSUME ReceiverAssumption ==
    /\ Answers \subseteq {101} \cup 200 .. 599
    /\ Answers \cap 200 .. 299 \subseteq Remembered
    /\ Remembered \subseteq Answers

VARIABLES
    open,           \* open[w]: the answer to the request of w, Sent or NoRequest
    late,           \* the bag of the keys of requests nobody waits for
    cache,          \* cache[key]: the answer a receiver keeps
    effects         \* effects[j]: how often the webhook of j took effect

deliveryVars == <<open, late, cache, effects>>

NoRequest == -1

\* The status of a request as long as there is none.
Sent == 0

IsSuccessHTTPStatus(code) == code \in 200 .. 299

\* A plausible slip: 429 is a client error like any other.
Is4xx(code) == code \in 400 .. 499

IsClientErrorHTTPStatus(code) == code \in 400 .. 499 \ {429}

\* A plausible slip: a key for each attempt.
KeyPerAttempt(w) == <<workerJob[w], workerRec[w].attempt>>

\* The Idempotency-Key of the request of worker w.
Key(w) == <<workerJob[w]>>

DeliveryInit ==
    /\ Init
    /\ open = [w \in Workers |-> NoRequest]
    /\ late = EmptyBag
    /\ cache = [key \in {} |-> Sent]
    /\ effects = [j \in Jobs |-> 0]

Remember(key, answer) ==
    [k \in DOMAIN cache \cup {key} |-> IF k = key THEN answer ELSE cache[k]]

\* A receiver handles a request for j.
Handle(key, j, answer) ==
    IF key \in DOMAIN cache
    THEN answer = cache[key] /\ UNCHANGED <<cache, effects>>
    ELSE /\ cache' = IF answer \in Remembered THEN Remember(key, answer) ELSE cache
         /\ effects' = IF answer \in 200 .. 299 THEN [effects EXCEPT ![j] = @ + 1] ELSE effects

Receive(w) ==
    /\ open[w] = Sent
    /\ \E answer \in Answers :
        /\ Handle(Key(w), workerJob[w], answer)
        /\ open' = [open EXCEPT ![w] = answer]
    /\ UNCHANGED <<vars, late>>

ReceiveLate(key) ==
    /\ BagIn(key, late)
    /\ late' = late (-) SetToBag({key})
    /\ \E answer \in Answers : Handle(key, key[1], answer)
    /\ UNCHANGED <<vars, open>>

Waits(w) == workerPc[w] = "inflight"

\* The requests whose sender stops waiting before they have reached a receiver.
GivenUp == {w \in Workers : open[w] = Sent /\ ~Waits(w)'}

\* A step of TickHook: a worker takes the branch of the answer it has got, or the
\* one of a failed request when no answer came in time.
Send ==
    /\ Next
    /\ \A w \in Workers :
        /\ WorkerSucceeds(w) => IsSuccessHTTPStatus(open[w])
        /\ WorkerRefused(w) => IsClientErrorHTTPStatus(open[w]) \/ WorkerFails(w)
    /\ open' = [w \in Workers |-> CASE ~Waits(w)' -> NoRequest
                                    [] Waits(w)' /\ ~Waits(w) -> Sent
                                    [] OTHER -> open[w]]
    /\ late' = late (+) SetToBag({Key(w) : w \in GivenUp})
    /\ UNCHANGED <<cache, effects>>

DeliveryNext ==
    \/ Send
    \/ \E w \in Workers : Receive(w)
    \/ \E key \in BagToSet(late) : ReceiveLate(key)

DeliverySpec == DeliveryInit /\ [][DeliveryNext]_<<vars, deliveryVars>>

-----------------------------------------------------------------------------

\* Safety.  The webhook of a one-shot job takes effect at most once, and has done so
\* when TickHook deletes the job: neither a request that arrives after its timeout,
\* nor an answer that arrives too late, nor a retry, a crash or a failed DeleteJob
\* doubles it, because all requests of a job carry one key (executor.go:200-206).
OneEffect ==
    \A j \in Jobs : Request[j].type = "one_shot" =>
        /\ effects[j] <= 1
        /\ j \in succeeded => effects[j] = 1

\* The job of w fails for good although it has attempts left.
GivesUpEarly(w) ==
    /\ Waits(w)
    /\ workerPc'[w] = "update"
    /\ workerRec'[w].status = "failed"
    /\ tries[workerJob[w]] < Request[workerJob[w]].maxAttempts

\* Safety.  What ends a job is what docs/INTERNALS.md:140-146 lists: it has succeeded
\* only if it was answered 2xx, and fails with attempts left only if it was answered
\* 4xx other than 429, never for a 429, a 5xx, or an answer that did not come
\* (executor.go:145-165, util.go:80-84).
TableIsFollowed ==
    [][\A w \in Workers :
        /\ WorkerSucceeds(w) => open[w] \in 200 .. 299
        /\ GivesUpEarly(w) => open[w] \in 400 .. 428 \cup 430 .. 499]_vars
=============================================================================
