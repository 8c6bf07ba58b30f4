----------------------------- MODULE RuntimeGate -----------------------------
(***************************************************************************)
(* The development application as a reset sees it: the one worker, its     *)
(* request gate, the requests it serves and the data they write.  A        *)
(* request is counted from its admission to the end of its stream; a job   *)
(* it queues outlives it.  The worker may be reloaded at any time and then *)
(* has a new identity, no hold and no request.                             *)
(***************************************************************************)
EXTENDS Integers

CONSTANTS
    Request,
    None,
    MaxInstance,    \* bound: reloads of the worker stop here
    MaxRows         \* bound: rows the application may write

VARIABLES
    app,        \* the worker: running, its instance, _lease, active_requests
    requests,   \* where each request really is
    data        \* the database: up, its rows, an active job in operator_jobs

gateVars == <<app, requests, data>>

Quiet == [r \in Request |-> "none"]

GateInit ==
    /\ app = [running |-> TRUE, instance |-> 1, lease |-> None, active |-> 0]
    /\ requests = Quiet
    /\ data = [up |-> TRUE, rows |-> 0, working |-> FALSE]

\* A worker that starts: nothing of the one before is left.
Fresh(a) == [running |-> TRUE, instance |-> a.instance + 1, lease |-> None, active |-> 0]
Stopped(a) == [a EXCEPT !.running = FALSE, !.lease = None, !.active = 0]

Written == {n \in data.rows .. data.rows + 1 : n <= MaxRows}

\* The middleware admits and counts in one stretch of the loop.
Admit(r) ==
    /\ app.running /\ app.lease = None /\ requests[r] = "none"
    /\ app' = [app EXCEPT !.active = @ + 1]
    /\ requests' = [requests EXCEPT ![r] = "handled"]
    /\ UNCHANGED data

\* Mutant: the request is counted until its headers are out.
RespondUncounted(r) ==
    /\ requests[r] = "handled"
    /\ requests' = [requests EXCEPT ![r] = "streamed"]
    /\ app' = [app EXCEPT !.active = @ - 1]
    /\ UNCHANGED data

\* The response headers are sent; a job may have been queued.
Respond(r) ==
    /\ requests[r] = "handled"
    /\ requests' = [requests EXCEPT ![r] = "streamed"]
    /\ \E working \in {data.working, TRUE} : data' = [data EXCEPT !.working = working]
    /\ UNCHANGED app

\* Body, background tasks and the cleanup of the producer are over, or the handler failed.
Finish(r) ==
    /\ requests[r] # "none"
    /\ requests' = [requests EXCEPT ![r] = "none"]
    /\ app' = [app EXCEPT !.active = @ - 1]
    /\ \E n \in Written : data' = [data EXCEPT !.rows = n]

\* The queued job runs, or the next worker settles its row.
JobEnds ==
    /\ app.running /\ data.working
    /\ \E n \in Written : data' = [data EXCEPT !.rows = n, !.working = FALSE]
    /\ UNCHANGED <<app, requests>>

Reload ==
    /\ app.running /\ app.instance < MaxInstance
    /\ app' = Fresh(app)
    /\ requests' = Quiet
    /\ UNCHANGED data

-----------------------------------------------------------------------------
(* The controls, as the operator calls them. *)

Grants(lease) == app.running /\ app.active = 0 /\ app.lease \in {None, lease}
Releases(lease) == app.running /\ app.lease \in {None, lease}

GateNext ==
    \/ \E r \in Request : Admit(r) \/ Respond(r) \/ Finish(r)
    \/ JobEnds
=============================================================================
