------------------------- MODULE OctagonStateMachine -------------------------
(***************************************************************************)
(* The state machine framework of keychain/ot that Octagon, CKKS, the      *)
(* escrow request server and SOS are all built on.                         *)
(*                                                                         *)
(* Every block the code dispatches on the machine's serial queue is one    *)
(* action.  An engine transition is two operations on an operation queue:  *)
(* the attempt itself, which runs outside the serial queue, and its        *)
(* follow-up, which finishes the attempt on the serial queue; everything   *)
(* else (flags, requests, timeouts, halting) may happen between the two.   *)
(*                                                                         *)
(* The engine, a weakly held delegate in the code, is the table Engine: an *)
(* entry leaves state "from", needs the flag "flag" (or none), removes     *)
(* that flag, and ends in one of the states "outcomes".  Pending flags are *)
(* in OctagonPendingFlags, the watchers in OctagonWatchers.                *)
(***************************************************************************)
EXTENDS Naturals, Sequences

CONSTANTS
    State,          \* the engine's states, with the two below
    NotStarted,     \* OctagonStateMachineNotStarted
    Halted,         \* OctagonStateMachineHalted
    InitialState,   \* the state the "initialize" operation enters
    NoState,        \* an attempt that has not finished has no next state
    Flag, NoFlag,
    Engine,         \* the transitions of the state engine
    Request,        \* external requests (one per RPC)
    NoRequest,
    SourceStates,   \* the states each request may start from
    RequestOutcomes,\* the states each request's operation may end in
    TestHoldable    \* states the tests may ask the machine to hold in

ASSUME StatesAssumption ==
    /\ {NotStarted, Halted, InitialState} \subseteq State
    /\ NotStarted # Halted /\ InitialState \notin {NotStarted, Halted}
    /\ NoState \notin State
    /\ TestHoldable \subseteq State
ASSUME EngineAssumption ==
    /\ NoFlag \notin Flag
    /\ Engine \subseteq [from : State \ {NotStarted, Halted},
                         flag : Flag \cup {NoFlag},
                         outcomes : (SUBSET (State \ {NotStarted, Halted})) \ {{}}]
ASSUME RequestAssumption ==
    /\ NoRequest \notin Request
    /\ SourceStates \in [Request -> SUBSET (State \ {NotStarted, Halted})]
    /\ RequestOutcomes \in
         [Request -> (SUBSET (State \ {NotStarted, Halted})) \ {{}}]

VARIABLES
    hold,           \* holdStateMachineOperation has not been released yet
    currentState,
    cycle,          \* nextStateMachineCycleOperation
    flags,          \* currentFlags
    testHoldStates,
    paused,         \* the CKKSCondition "paused" is fulfilled
    halted,
    halter,         \* where the caller of haltOperation is
    stateMachineRequests, \* in order of arrival; entries are never removed
    timeoutCanOccur,\* per request
    handed,         \* how often a request's operation was put on a queue
    rpc             \* how a request's operation finished

coreVars == <<hold, currentState, cycle, flags, testHoldStates, paused, halted,
              halter, stateMachineRequests, timeoutCanOccur, handed, rpc>>
cycleVars == <<cycle, paused, timeoutCanOccur, handed>>
-----------------------------------------------------------------------------
(* An attempt: what it is, the request it serves, and where it can end.    *)
Attempt(kind, r, ends) ==
    [kind |-> kind, request |-> r, outcomes |-> ends, next |-> NoState]
NoCycle  == Attempt("none", NoRequest, {})
Initialize == Attempt("initialize", NoRequest, {InitialState})
HaltAttempt == Attempt("halt", NoRequest, {Halted})
RequestAttempt(r) == Attempt("request", r, RequestOutcomes[r])
EngineAttempt(t) == Attempt("engine", NoRequest, t.outcomes)

Kinds == {"none", "initialize", "halt", "request", "engine"}
CycleType == [kind : Kinds, request : Request \cup {NoRequest},
              outcomes : SUBSET State, next : State \cup {NoState}]

(* Positions of the request array whose request _onqueueStart hands over.  *)
Startable(queue, s) ==
    {i \in DOMAIN queue : /\ s \in SourceStates[queue[i]]
                          /\ timeoutCanOccur[queue[i]]}

EngineChoices(s, fl) ==
    {t \in Engine : t.from = s /\ (t.flag = NoFlag \/ t.flag \in fl)}

(* The machine finds something to do in state s.                           *)
HasWork(h, s, fl, queue) ==
    IF h THEN s # Halted
         ELSE Startable(queue, s) # {} \/ EngineChoices(s, fl) # {}
-----------------------------------------------------------------------------
(* The operators below run at the end of a queue block: they read the      *)
(* primed variables the block has already assigned, and assign the flags,  *)
(* the cycle operation and the request being started.                      *)

(* Mutant: the request is started without disarming its timer.             *)
OnqueueStartKeepsTimer(r) ==
    /\ timeoutCanOccur[r]
    /\ UNCHANGED timeoutCanOccur

OnqueueStart(r) ==
    /\ timeoutCanOccur[r]
    /\ timeoutCanOccur' = [timeoutCanOccur EXCEPT ![r] = FALSE]

(* [OctagonStateMachine _onqueueNextStateMachineTransition]: halt first,   *)
(* then requests in order of arrival, then the engine.                     *)
HaltNext(fl) ==
    /\ halted' /\ currentState' # Halted
    /\ cycle' = HaltAttempt
    /\ flags' = fl
    /\ UNCHANGED <<timeoutCanOccur, handed>>

(* Mutant: requests are served before the machine looks whether it halts.  *)
RequestNextThoughHalted(fl) ==
    /\ \E i \in Startable(stateMachineRequests', currentState') :
         /\ \A j \in Startable(stateMachineRequests', currentState') : i <= j
         /\ OnqueueStart(stateMachineRequests'[i])
         /\ handed' = [handed EXCEPT ![stateMachineRequests'[i]] = @ + 1]
         /\ cycle' = RequestAttempt(stateMachineRequests'[i])
    /\ flags' = fl

RequestNext(fl) ==
    /\ ~halted'
    /\ \E i \in Startable(stateMachineRequests', currentState') :
         /\ \A j \in Startable(stateMachineRequests', currentState') : i <= j
         /\ OnqueueStart(stateMachineRequests'[i])
         /\ handed' = [handed EXCEPT ![stateMachineRequests'[i]] = @ + 1]
         /\ cycle' = RequestAttempt(stateMachineRequests'[i])
    /\ flags' = fl

EngineNext(fl) ==
    /\ ~halted'
    /\ Startable(stateMachineRequests', currentState') = {}
    /\ \E t \in EngineChoices(currentState', fl) :
         /\ cycle' = EngineAttempt(t)
         /\ flags' = fl \ {t.flag}
    /\ UNCHANGED <<timeoutCanOccur, handed>>

NextStateMachineTransition(fl) == HaltNext(fl) \/ RequestNext(fl) \/ EngineNext(fl)

Rest(fl) ==
    /\ cycle' = NoCycle
    /\ paused' = TRUE
    /\ flags' = fl
    /\ UNCHANGED <<timeoutCanOccur, handed>>

(* Mutant: the fulfilled paused condition is never replaced.               *)
StartNextKeepsPaused(immediately, fl) ==
    \/ currentState' \in testHoldStates' /\ Rest(fl)
    \/ /\ currentState' \notin testHoldStates'
       /\ NextStateMachineTransition(fl)
       /\ paused' = paused
    \/ /\ currentState' \notin testHoldStates'
       /\ ~HasWork(halted', currentState', fl, stateMachineRequests')
       /\ Rest(fl)

(* _onqueueStartNextStateMachineOperation, once no cycle operation exists. *)
(* A fresh paused condition replaces the fulfilled one, except right after *)
(* a previous operation, when it is already fresh.                         *)
StartNext(immediately, fl) ==
    \/ currentState' \in testHoldStates' /\ Rest(fl)
    \/ /\ currentState' \notin testHoldStates'
       /\ NextStateMachineTransition(fl)
       /\ paused' = (immediately /\ paused)
    \/ /\ currentState' \notin testHoldStates'
       /\ ~HasWork(halted', currentState', fl, stateMachineRequests')
       /\ Rest(fl)

(* Mutant: a poke starts the next operation beside the one in flight.      *)
PokeThoughBusy(fl) == StartNext(FALSE, fl)

(* _onqueuePokeStateMachine: a no-op while an operation is in flight, since *)
(* that operation's follow-up looks for work again.                        *)
Poke(fl) ==
    \/ cycle # NoCycle /\ flags' = fl /\ UNCHANGED cycleVars
    \/ cycle = NoCycle /\ StartNext(FALSE, fl)
-----------------------------------------------------------------------------
Init ==
    /\ hold = TRUE
    /\ currentState = NotStarted
    /\ cycle = Initialize
    /\ flags = {}
    /\ testHoldStates = {}
    /\ paused = FALSE
    /\ halted = FALSE
    /\ halter = "idle"
    /\ stateMachineRequests = <<>>
    /\ timeoutCanOccur = [r \in Request |-> FALSE]
    /\ handed = [r \in Request |-> 0]
    /\ rpc = [r \in Request |-> "none"]

StartOperation ==
    /\ hold
    /\ hold' = FALSE
    /\ UNCHANGED <<currentState, cycleVars, flags, testHoldStates, halted, halter,
                   stateMachineRequests, rpc>>

(* The attempt in flight runs to its end, outside the serial queue.        *)
RunAttempt ==
    /\ cycle # NoCycle /\ ~hold
    /\ cycle.next = NoState
    /\ \E s \in cycle.outcomes : cycle' = [cycle EXCEPT !.next = s]
    /\ rpc' = IF cycle.kind = "request"
              THEN [rpc EXCEPT ![cycle.request] = "ran"] ELSE rpc
    /\ UNCHANGED <<hold, currentState, flags, testHoldStates, paused, halted,
                   halter, stateMachineRequests, timeoutCanOccur, handed>>

(* Mutant: the follow-up does not depend on the attempt.                   *)
FinishAttemptUnwaited ==
    /\ cycle # NoCycle /\ ~hold
    /\ currentState' = cycle.next
    /\ halter' = IF halter = "waiting" THEN "returned" ELSE halter
    /\ UNCHANGED <<hold, testHoldStates, halted, stateMachineRequests, rpc>>
    /\ StartNext(TRUE, flags)

(* The follow-up of an attempt (createOperationToFinishAttempt).  A caller *)
(* of haltOperation that waits for this cycle operation returns.           *)
FinishAttempt ==
    /\ cycle # NoCycle /\ ~hold
    /\ cycle.next # NoState
    /\ currentState' = cycle.next
    /\ halter' = IF halter = "waiting" THEN "returned" ELSE halter
    /\ UNCHANGED <<hold, testHoldStates, halted, stateMachineRequests, rpc>>
    /\ StartNext(TRUE, flags)

PokeStateMachine ==
    /\ UNCHANGED <<hold, currentState, testHoldStates, halted, halter,
                   stateMachineRequests, rpc>>
    /\ Poke(flags)

HandleFlag(f) ==
    /\ UNCHANGED <<hold, currentState, testHoldStates, halted, halter,
                   stateMachineRequests, rpc>>
    /\ Poke(flags \cup {f})

(* A client makes a request; its timer starts at once, on the queue.       *)
CreateRequest(r) ==
    /\ rpc[r] = "none"
    /\ rpc' = [rpc EXCEPT ![r] = "created"]
    /\ timeoutCanOccur' = [timeoutCanOccur EXCEPT ![r] = TRUE]
    /\ UNCHANGED <<hold, currentState, cycle, flags, testHoldStates, paused,
                   halted, halter, stateMachineRequests, handed>>

(* Mutant: the request is stored, and the machine not poked.               *)
HandleExternalRequestQuietly(r) ==
    /\ rpc[r] # "none"
    /\ \A i \in DOMAIN stateMachineRequests : stateMachineRequests[i] # r
    /\ stateMachineRequests' = Append(stateMachineRequests, r)
    /\ UNCHANGED <<hold, currentState, cycleVars, flags, testHoldStates, halted,
                   halter, rpc>>

(* handleExternalRequest, in a later block of the same client.             *)
HandleExternalRequest(r) ==
    /\ rpc[r] # "none"
    /\ \A i \in DOMAIN stateMachineRequests : stateMachineRequests[i] # r
    /\ stateMachineRequests' = Append(stateMachineRequests, r)
    /\ UNCHANGED <<hold, currentState, testHoldStates, halted, halter, rpc>>
    /\ Poke(flags)

(* Mutant: the cancelled operation is put on no queue, and never finishes. *)
RequestTimeoutUnanswered(r) ==
    /\ timeoutCanOccur[r]
    /\ timeoutCanOccur' = [timeoutCanOccur EXCEPT ![r] = FALSE]
    /\ UNCHANGED <<hold, currentState, cycle, flags, testHoldStates, paused,
                   halted, halter, stateMachineRequests, handed, rpc>>

(* The request's timer: the operation is cancelled with a timeout error by *)
(* being put, already timed out, on an operation queue of its own.         *)
RequestTimeout(r) ==
    /\ timeoutCanOccur[r]
    /\ timeoutCanOccur' = [timeoutCanOccur EXCEPT ![r] = FALSE]
    /\ handed' = [handed EXCEPT ![r] = @ + 1]
    /\ rpc' = [rpc EXCEPT ![r] = "timedOut"]
    /\ UNCHANGED <<hold, currentState, cycle, flags, testHoldStates, paused,
                   halted, halter, stateMachineRequests>>

TestPause(s) ==
    /\ testHoldStates' = testHoldStates \cup {s}
    /\ UNCHANGED <<hold, currentState, cycleVars, flags, halted, halter,
                   stateMachineRequests, rpc>>

TestRelease(s) ==
    /\ testHoldStates' = testHoldStates \ {s}
    /\ UNCHANGED <<hold, currentState, halted, halter, stateMachineRequests, rpc>>
    /\ Poke(flags)

(* Mutant: a machine at rest is not poked when it is asked to halt.        *)
HaltOperationQuietly ==
    /\ halter \in {"idle", "returned"}
    /\ hold' = FALSE
    /\ halted' = TRUE
    /\ halter' = "asked"
    /\ UNCHANGED <<currentState, cycleVars, flags, testHoldStates,
                   stateMachineRequests, rpc>>

(* haltOperation: one block on the queue, then, outside it, a wait for     *)
(* whatever cycle operation the property holds at that moment.             *)
HaltOperation ==
    /\ halter \in {"idle", "returned"}
    /\ hold' = FALSE
    /\ halted' = TRUE
    /\ halter' = "asked"
    /\ UNCHANGED <<currentState, testHoldStates, stateMachineRequests, rpc>>
    /\ Poke(flags)

(* Mutant: haltOperation does not wait for the operation in flight.        *)
HaltWaitForNothing ==
    /\ halter = "asked" /\ halter' = "returned"
    /\ UNCHANGED <<hold, currentState, cycleVars, flags, testHoldStates, halted,
                   stateMachineRequests, rpc>>

HaltWait ==
    /\ halter = "asked"
    /\ halter' = IF cycle = NoCycle THEN "returned" ELSE "waiting"
    /\ UNCHANGED <<hold, currentState, cycleVars, flags, testHoldStates, halted,
                   stateMachineRequests, rpc>>

Next ==
    \/ StartOperation \/ RunAttempt \/ FinishAttempt \/ PokeStateMachine
    \/ \E f \in Flag : HandleFlag(f)
    \/ \E r \in Request : \/ CreateRequest(r) \/ HandleExternalRequest(r)
                          \/ RequestTimeout(r)
    \/ \E s \in TestHoldable : TestPause(s) \/ TestRelease(s)
    \/ HaltOperation \/ HaltWait

Spec == Init /\ [][Next]_coreVars

(* Operations on an operation queue run, timers fire, and a client that    *)
(* has made a request goes on to submit it.  Nothing makes a client start  *)
(* the machine, set a flag or make a request.                              *)
Fairness ==
    /\ WF_coreVars(RunAttempt) /\ WF_coreVars(FinishAttempt)
    /\ WF_coreVars(HaltWait)
    /\ \A r \in Request : /\ WF_coreVars(HandleExternalRequest(r))
                         /\ WF_coreVars(RequestTimeout(r))

FairSpec == Spec /\ Fairness
-----------------------------------------------------------------------------
TypeOK ==
    /\ hold \in BOOLEAN
    /\ currentState \in State
    /\ cycle \in CycleType
    /\ flags \subseteq Flag
    /\ testHoldStates \subseteq TestHoldable
    /\ paused \in BOOLEAN
    /\ halted \in BOOLEAN
    /\ halter \in {"idle", "asked", "waiting", "returned"}
    /\ stateMachineRequests \in Seq(Request)
    /\ timeoutCanOccur \in [Request -> BOOLEAN]
    /\ handed \in [Request -> Nat]
    /\ rpc \in [Request -> {"none", "created", "ran", "timedOut"}]

(* A machine at rest has nothing to do: no flag, request or engine         *)
(* transition was missed by a block that did not look for work             *)
(* (_onqueueStartNextStateMachineOperation is the only place that looks).  *)
NoLostWakeup ==
    cycle = NoCycle =>
        \/ currentState \in testHoldStates
        \/ ~HasWork(halted, currentState, flags, stateMachineRequests)

(* The condition "paused", which tests and clients wait on, is fulfilled   *)
(* exactly while no transition is in flight.                               *)
PausedMeansResting == paused <=> cycle = NoCycle

(* An operation is put on an operation queue at most once (a second        *)
(* addOperation throws), by the machine or by its timer and not by both,   *)
(* however the 30 s timer races with a poke.                               *)
RequestHandedOnce ==
    \A r \in Request : /\ handed[r] <= 1
                       /\ rpc[r] = "timedOut" => cycle.request # r

(* Once haltOperation has returned, the machine runs nothing of its engine *)
(* or its clients: the wait outside the queue saw the last such operation. *)
HaltStopsEngine ==
    halter = "returned" => cycle.kind \in {"none", "halt"}

(* A halted machine lets the operation in flight finish, starts nothing    *)
(* but the halt, and never leaves the halted state.                        *)
HaltIsFinal ==
    [][/\ currentState = Halted => currentState' = Halted
       /\ (halted /\ cycle' # cycle /\ cycle'.next = NoState)
            => cycle'.kind \in {"none", "halt"}]_coreVars

(* A client of a simple RPC gets an answer: the operation runs or is timed *)
(* out, also if the machine never starts, halts, or never reaches one of   *)
(* the request's source states.                                            *)
RPCIsAnswered ==
    \A r \in Request : rpc[r] = "created" ~> rpc[r] \in {"ran", "timedOut"}

(* haltOperation returns, and the machine reaches the halted state unless  *)
(* a test holds it.                                                        *)
HaltCompletes ==
    /\ halter = "asked" ~> halter = "returned"
    /\ halted ~> (currentState = Halted \/ currentState \in testHoldStates)
-----------------------------------------------------------------------------
(* The abstract RPC service: a request waits while it can time out, and    *)
(* runs from when the machine took its operation until that has finished.  *)
Answer ==
    [r \in Request |->
       IF rpc[r] # "created" THEN rpc[r]
       ELSE IF timeoutCanOccur[r] THEN "waiting" ELSE "running"]

RPC == INSTANCE OctagonRPC
         WITH state <- currentState, answer <- Answer, stopped <- halted

(* The machine implements that service: every RPC is answered once, its    *)
(* operation begins in a source state and alone, the state stands still    *)
(* while it runs, and none begins after haltOperation.                     *)
ServesRPCs == RPC!RPCSpec
=============================================================================
