----------------------------- MODULE MCHttpServer -----------------------------
(* A small instance of HttpServer for TLC. *)
EXTENDS HttpServer, TLC

CONSTANTS id1, id2

Sound == [parses |-> TRUE, time |-> TRUE, interval_ms |-> 1, url |-> TRUE,
          method |-> TRUE, webhookBody |-> "object", retry |-> <<>>]

Retry(max, base) == <<[max_attempts |-> max, backoff_base_ms |-> base]>>

\* A body with one thing wrong with it, or none.
Bodies ==
    {Sound}
    \cup {[Sound EXCEPT !.parses = FALSE], [Sound EXCEPT !.time = FALSE],
          [Sound EXCEPT !.url = FALSE], [Sound EXCEPT !.method = FALSE],
          [Sound EXCEPT !.webhookBody = "array"]}
    \cup {[Sound EXCEPT !.interval_ms = ms] : ms \in {-1, 0}}
    \cup {[Sound EXCEPT !.retry = retry] :
            retry \in {Retry(-1, 1), Retry(0, 1), Retry(1, 0), Retry(1, 1)}}

Call(method, path, auth, body, id) ==
    [method |-> method, path |-> path, auth |-> auth, body |-> body, id |-> id]

\* Every route with the token, a wrong one or none; unknown paths and methods.
MCRequests ==
    {Call("POST", path, "bearer token", body, id1) :
        path \in {"/v1/jobs/one-shot", "/v1/jobs/recurring"}, body \in Bodies}
    \cup {Call("POST", "/v1/jobs/one-shot", auth, Sound, id1) :
            auth \in {"none", "wrong token", "not bearer"}}
    \cup {Call(method, "/v1/jobs/{job_id}", auth, Sound, id) :
            method \in {"GET", "DELETE", "PUT"}, auth \in {"none", "bearer token"},
            id \in {id1, id2}}
    \cup {Call("GET", path, auth, Sound, id1) :
            path \in {"/health", "/metrics"}, auth \in {"none", "bearer token"}}

MCConnSymmetry == Permutations(Conns)
=============================================================================
