----------------------------- MODULE RemoteCall -----------------------------
(***************************************************************************)
(* What a PSA client API call made from another machine promises: the      *)
(* secure side executes the request that was made, at most once, and the   *)
(* caller gets what the execution produced, or a failure that leaves the   *)
(* caller's buffers as they were.  Erpc implements it.                     *)
(***************************************************************************)
EXTENDS Integers, Sequences

CONSTANTS
    Request,            \* the requests a client makes
    Failure,            \* the value returned when the remote call itself failed
    Outcomes(_),        \* what the secure side may produce for a request
    Refusals            \* what a call refused before it is made returns

VARIABLES
    phase,              \* "idle", "called" or "executed"
    req,                \* the request of the call in progress
    outcome,            \* what its execution produced
    ret                 \* what the last call returned to its caller

remoteVars == <<phase, req, outcome, ret>>

Nothing == [value |-> Failure, outs |-> <<>>]

\* The caller's output vectors after a call: the data of the outcome, with the
\* lengths the caller gave when the status is an error.
Received(o) ==
    [value |-> o.value,
     outs |-> [i \in DOMAIN o.outs |->
                  [data |-> o.outs[i].data,
                   len |-> IF o.value = 0 THEN o.outs[i].len ELSE req.out[i].len]]]

RemoteInit == phase = "idle" /\ req = <<>> /\ outcome = Nothing /\ ret = Nothing

Call ==
    /\ phase = "idle"
    /\ phase' = "called" /\ req' \in Request /\ outcome' = Nothing
    /\ UNCHANGED ret

Refuse == phase = "idle" /\ ret' \in Refusals /\ UNCHANGED <<phase, req, outcome>>

Execute ==
    /\ phase = "called"
    /\ phase' = "executed" /\ outcome' \in Outcomes(req)
    /\ UNCHANGED <<req, ret>>

Return ==
    /\ phase = "executed"
    /\ phase' = "idle" /\ ret' = Received(outcome)
    /\ req' = <<>> /\ outcome' = Nothing

Fail ==
    /\ phase \in {"called", "executed"}
    /\ phase' = "idle" /\ ret' = [value |-> Failure, outs |-> req.out]
    /\ req' = <<>> /\ outcome' = Nothing

RemoteNext == Call \/ Refuse \/ Execute \/ Return \/ Fail

RemoteSpec == RemoteInit /\ [][RemoteNext]_remoteVars
=============================================================================
