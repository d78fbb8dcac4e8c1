------------------------------ MODULE OctagonRPC ------------------------------
(***************************************************************************)
(* What the state machine promises the callers of its RPCs: each request   *)
(* is answered once, by its own operation or by its timeout; an operation  *)
(* begins in one of the request's source states, runs alone, and the       *)
(* machine stays in that state until it has finished; none begins once the *)
(* machine was told to stop.  OctagonStateMachine implements this.         *)
(***************************************************************************)
CONSTANTS State, Request, SourceStates

VARIABLES
    state,    \* the machine's state
    answer,   \* where each request is
    stopped   \* haltOperation was called

rpcVars == <<state, answer, stopped>>

NothingRuns == \A r \in Request : answer[r] # "running"

RPCInit ==
    /\ state \in State
    /\ answer = [r \in Request |-> "none"]
    /\ stopped = FALSE

(* A client makes a request; from then on it may time out.                 *)
Make(r) ==
    /\ answer[r] = "none"
    /\ answer' = [answer EXCEPT ![r] = "waiting"]
    /\ UNCHANGED <<state, stopped>>

(* The request's operation begins, maybe as the machine enters the state.  *)
Begin(r) ==
    /\ answer[r] = "waiting" /\ NothingRuns
    /\ ~stopped
    /\ state' \in SourceStates[r]
    /\ answer' = [answer EXCEPT ![r] = "running"]
    /\ UNCHANGED stopped

Complete(r) ==
    /\ answer[r] = "running"
    /\ answer' = [answer EXCEPT ![r] = "ran"]
    /\ UNCHANGED <<state, stopped>>

Expire(r) ==
    /\ answer[r] = "waiting"
    /\ answer' = [answer EXCEPT ![r] = "timedOut"]
    /\ UNCHANGED <<state, stopped>>

(* The machine moves on while no request's operation runs.                 *)
Move ==
    /\ NothingRuns
    /\ state' \in State
    /\ UNCHANGED <<answer, stopped>>

Stop == stopped' = TRUE /\ UNCHANGED <<state, answer>>

RPCNext ==
    \/ \E r \in Request : Make(r) \/ Begin(r) \/ Complete(r) \/ Expire(r)
    \/ Move \/ Stop

RPCSpec == RPCInit /\ [][RPCNext]_rpcVars
=============================================================================
