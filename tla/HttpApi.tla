------------------------------ MODULE HttpApi ------------------------------
(***************************************************************************)
(* The job handlers of internal/httpapi/handlers.go that change the store. *)
(* They run in goroutines of their own, on the context of their request,   *)
(* and keep running until the process has stopped the executor.  GET       *)
(* /v1/jobs/{id} only reads.                                               *)
(*                                                                         *)
(* Bound: at most one DELETE of a job is between its two store calls.      *)
(***************************************************************************)
EXTENDS Process

VARIABLES
    issued,         \* the IDs uuid.New() has handed out
    deleting,       \* jobs whose DELETE has found them and not deleted them yet
    deleted         \* jobs whose DELETE was answered {"deleted": true}

apiVars == <<issued, deleting, deleted>>

ApiTypeOK ==
    /\ issued \subseteq Jobs
    /\ deleting \subseteq Jobs
    /\ deleted \subseteq Jobs

ApiInit == issued = {} /\ deleting = {} /\ deleted = {}

RequestOutcomes == {"ok"} \cup StoreFaults

\* A plausible slip: the ID only has to be free in the store.
HandleCreateReusingId(j) ==
    /\ ~Stored(j)
    /\ issued' = issued \cup {j}
    /\ \E outcome \in RequestOutcomes : CreateJob(j, NewJob(j), outcome)
    /\ UNCHANGED <<deleting, deleted>>

\* handleCreateOneShot and handleCreateRecurring: a fresh ID, then CreateJob.
HandleCreate(j) ==
    /\ j \notin issued
    /\ issued' = issued \cup {j}
    /\ \E outcome \in RequestOutcomes : CreateJob(j, NewJob(j), outcome)
    /\ UNCHANGED <<deleting, deleted>>

\* handleDeleteJob, first call: GetJob finds the job (otherwise 404 or 500).
HandleDeleteLookup(j) ==
    /\ Stored(j)
    /\ j \notin deleting
    /\ deleting' = deleting \cup {j}
    /\ UNCHANGED <<storeVars, issued, deleted>>

\* handleDeleteJob, second call: DeleteJob, then 200 or 500.
HandleDelete(j) ==
    /\ j \in deleting
    /\ deleting' = deleting \ {j}
    /\ \E outcome \in RequestOutcomes :
        /\ DeleteJob(j, outcome)
        /\ deleted' = IF outcome = "ok" THEN deleted \cup {j} ELSE deleted
    /\ UNCHANGED issued
=============================================================================
