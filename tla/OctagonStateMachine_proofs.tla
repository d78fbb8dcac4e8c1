--------------------- MODULE OctagonStateMachine_proofs ----------------------
(***************************************************************************)
(* Safety of the Octagon state machine for every engine, every set of      *)
(* flags, requests and test holds.  The inductive invariant Inv adds to    *)
(* the checked properties the shape of an attempt and what the timeout bit *)
(* of a request says about its operation.  The last part proves that the   *)
(* machine implements OctagonRPC.                                          *)
(***************************************************************************)
EXTENDS OctagonStateMachine, TLAPS

(* An attempt ends where its kind allows; only a halt enters Halted.       *)
AttemptShape(cy, h) ==
    /\ cy.next \in cy.outcomes \cup {NoState}
    /\ cy.kind = "none" => cy = NoCycle
    /\ cy.kind = "halt" => h
    /\ cy.kind # "halt" => Halted \notin cy.outcomes
    /\ cy.kind = "request" => cy.request \in Request

(* While a request can still time out, nothing has taken its operation.    *)
RequestShape(cy, tco, hd, rp) ==
    \A r \in Request :
        /\ hd[r] <= 1
        /\ tco[r] => hd[r] = 0 /\ rp[r] = "created"
        /\ rp[r] = "none" => ~tco[r] /\ hd[r] = 0
        /\ cy.request = r => ~tco[r] /\ rp[r] \in {"created", "ran"}

(* A request reaches the array only after its client made it.              *)
QueueShape ==
    \A i \in DOMAIN stateMachineRequests : rpc[stateMachineRequests[i]] # "none"

HaltShape ==
    /\ halter # "idle" => halted
    /\ currentState = Halted => halted /\ cycle = NoCycle

Inv ==
    /\ TypeOK
    /\ AttemptShape(cycle, halted)
    /\ RequestShape(cycle, timeoutCanOccur, handed, rpc)
    /\ QueueShape
    /\ HaltShape
    /\ NoLostWakeup
    /\ PausedMeansResting
    /\ HaltStopsEngine

(* What holds after a block that ends by looking for work.                 *)
CyclePost ==
    /\ cycle' \in CycleType
    /\ AttemptShape(cycle, halted)'
    /\ cycle'.next = NoState
    /\ RequestShape(cycle, timeoutCanOccur, handed, rpc)'
    /\ flags' \subseteq Flag
    /\ paused' \in BOOLEAN
    /\ timeoutCanOccur' \in [Request -> BOOLEAN]
    /\ handed' \in [Request -> Nat]
    /\ NoLostWakeup'
    /\ PausedMeansResting'
    /\ halted' => cycle'.kind \in {"none", "halt"}
    /\ currentState' = Halted /\ halted' => cycle' = NoCycle

USE StatesAssumption, EngineAssumption, RequestAssumption
    DEF StatesAssumption, EngineAssumption, RequestAssumption

LEMMA AttemptFacts ==
    /\ NoCycle \in CycleType /\ Initialize \in CycleType /\ HaltAttempt \in CycleType
    /\ \A r \in Request : RequestAttempt(r) \in CycleType
    /\ \A t \in Engine : EngineAttempt(t) \in CycleType
    /\ Initialize # NoCycle /\ HaltAttempt # NoCycle
    /\ \A r \in Request : RequestAttempt(r) # NoCycle
    /\ \A t \in Engine : EngineAttempt(t) # NoCycle
BY DEF NoCycle, Initialize, HaltAttempt, RequestAttempt, EngineAttempt, Attempt,
       CycleType, Kinds

(* The block finds the machine between two attempts: the request bits are  *)
(* in order, no request is being served, and the paused condition is fresh *)
(* if the block is a follow-up.                                            *)
LEMMA StartNextPost ==
    ASSUME NEW im \in BOOLEAN, NEW fl \in SUBSET Flag,
           currentState' \in State, halted' \in BOOLEAN,
           stateMachineRequests' \in Seq(Request),
           rpc' = rpc, rpc \in [Request -> {"none", "created", "ran", "timedOut"}],
           timeoutCanOccur \in [Request -> BOOLEAN],
           handed \in [Request -> Nat],
           RequestShape(NoCycle, timeoutCanOccur, handed, rpc),
           im => ~paused, paused \in BOOLEAN,
           currentState' = Halted => halted',
           StartNext(im, fl)
    PROVE  CyclePost
<1>1. CASE Rest(fl) /\ (\/ currentState' \in testHoldStates'
                       \/ ~HasWork(halted', currentState', fl, stateMachineRequests'))
  <2>1. NoLostWakeup'
    BY <1>1 DEF Rest, NoLostWakeup, HasWork, Startable, EngineChoices
  <2> QED
    BY <1>1, <2>1, AttemptFacts
    DEF Rest, CyclePost, AttemptShape, RequestShape, PausedMeansResting, NoCycle, Attempt
<1>2. CASE HaltNext(fl) /\ paused' = (im /\ paused)
  BY <1>2, AttemptFacts
  DEF HaltNext, CyclePost, AttemptShape, RequestShape, NoLostWakeup,
      PausedMeansResting, HaltAttempt, NoCycle, Attempt
<1>3. CASE RequestNext(fl) /\ paused' = (im /\ paused)
  <2>1. PICK i \in Startable(stateMachineRequests', currentState') :
           /\ OnqueueStart(stateMachineRequests'[i])
           /\ handed' = [handed EXCEPT ![stateMachineRequests'[i]] = @ + 1]
           /\ cycle' = RequestAttempt(stateMachineRequests'[i])
    BY <1>3 DEF RequestNext
  <2> DEFINE r == stateMachineRequests'[i]
  <2>2. r \in Request
    BY <2>1 DEF Startable
  <2> HIDE DEF r
  <2>3. /\ timeoutCanOccur[r] /\ timeoutCanOccur' = [timeoutCanOccur EXCEPT ![r] = FALSE]
        /\ handed' = [handed EXCEPT ![r] = @ + 1]
        /\ cycle' = RequestAttempt(r)
    BY <2>1 DEF r, OnqueueStart
  <2>4. RequestShape(cycle, timeoutCanOccur, handed, rpc)'
    BY <2>2, <2>3 DEF RequestShape, RequestAttempt, NoCycle, Attempt
  <2>5. AttemptShape(cycle, halted)'
    BY <2>2, <2>3 DEF AttemptShape, RequestAttempt, Attempt
  <2>6. cycle' \in CycleType /\ cycle' # NoCycle /\ cycle'.next = NoState
    BY <2>2, <2>3, AttemptFacts DEF RequestAttempt, Attempt
  <2>7. ~halted' /\ flags' = fl
    BY <1>3 DEF RequestNext
  <2> QED
    BY <1>3, <2>2, <2>3, <2>4, <2>5, <2>6, <2>7
    DEF CyclePost, NoLostWakeup, PausedMeansResting
<1>4. CASE EngineNext(fl) /\ paused' = (im /\ paused)
  <2>1. PICK t \in Engine : cycle' = EngineAttempt(t) /\ flags' = fl \ {t.flag}
    BY <1>4 DEF EngineNext, EngineChoices
  <2>2. cycle' \in CycleType /\ cycle' # NoCycle /\ cycle'.next = NoState
    BY <2>1, AttemptFacts DEF EngineAttempt, Attempt
  <2>3. AttemptShape(cycle, halted)'
    BY <2>1 DEF AttemptShape, EngineAttempt, Attempt
  <2>4. RequestShape(cycle, timeoutCanOccur, handed, rpc)'
    BY <1>4, <2>1 DEF RequestShape, EngineNext, EngineAttempt, NoCycle, Attempt
  <2> QED
    BY <1>4, <2>1, <2>2, <2>3, <2>4
    DEF EngineNext, CyclePost, NoLostWakeup, PausedMeansResting
<1> QED
  BY <1>1, <1>2, <1>3, <1>4 DEF StartNext, NextStateMachineTransition

(* The same for a block that only pokes: with an attempt in flight it      *)
(* leaves everything to that attempt's follow-up.                          *)
LEMMA PokePost ==
    ASSUME Inv, NEW fl \in SUBSET Flag, Poke(fl),
           currentState' = currentState, rpc' = rpc,
           halted' \in BOOLEAN, halted => halted',
           stateMachineRequests' \in Seq(Request)
    PROVE  /\ cycle' \in CycleType
           /\ AttemptShape(cycle, halted)'
           /\ RequestShape(cycle, timeoutCanOccur, handed, rpc)'
           /\ flags' \subseteq Flag
           /\ paused' \in BOOLEAN
           /\ timeoutCanOccur' \in [Request -> BOOLEAN]
           /\ handed' \in [Request -> Nat]
           /\ NoLostWakeup'
           /\ PausedMeansResting'
           /\ halted' => cycle' = cycle \/ cycle'.kind \in {"none", "halt"}
           /\ currentState' = Halted => cycle' = NoCycle
<1>1. CASE cycle # NoCycle /\ flags' = fl /\ UNCHANGED cycleVars
  BY <1>1 DEF Inv, TypeOK, AttemptShape, RequestShape, HaltShape, cycleVars,
              NoLostWakeup, PausedMeansResting
<1>2. CASE cycle = NoCycle /\ StartNext(FALSE, fl)
  <2>1. RequestShape(NoCycle, timeoutCanOccur, handed, rpc)
    BY <1>2 DEF Inv
  <2>2. CyclePost
    BY <1>2, <2>1, StartNextPost DEF Inv, TypeOK, HaltShape
  <2> QED
    BY <2>2 DEF CyclePost, Inv, HaltShape
<1> QED
  BY <1>1, <1>2 DEF Poke

LEMMA InitInv == Init => Inv
<1> SUFFICES ASSUME Init PROVE Inv
  OBVIOUS
<1>1. TypeOK
  <2>1. <<>> \in Seq(Request)
    OBVIOUS
  <2>2. /\ timeoutCanOccur \in [Request -> BOOLEAN]
        /\ handed \in [Request -> Nat]
        /\ rpc \in [Request -> {"none", "created", "ran", "timedOut"}]
    BY DEF Init
  <2> QED
    BY <2>1, <2>2, AttemptFacts DEF Init, TypeOK
<1>2. AttemptShape(cycle, halted)
  BY DEF Init, AttemptShape, Initialize, Attempt
<1>3. RequestShape(cycle, timeoutCanOccur, handed, rpc)
  BY DEF Init, RequestShape, Initialize, Attempt
<1>4. QueueShape /\ HaltShape /\ NoLostWakeup /\ PausedMeansResting /\ HaltStopsEngine
  BY AttemptFacts DEF Init, QueueShape, HaltShape, NoLostWakeup, PausedMeansResting, HaltStopsEngine
<1> QED
  BY <1>1, <1>2, <1>3, <1>4 DEF Inv

LEMMA NextInv == Inv /\ [Next]_coreVars => Inv'
<1> SUFFICES ASSUME Inv, [Next]_coreVars PROVE Inv'
  OBVIOUS
<1> USE DEF Inv
<1>1. CASE StartOperation
  BY <1>1 DEF StartOperation, TypeOK, AttemptShape, RequestShape, QueueShape,
              HaltShape, cycleVars, NoLostWakeup, HasWork, EngineChoices, Startable,
              PausedMeansResting, HaltStopsEngine
<1>2. CASE RunAttempt
  <2>1. PICK s \in cycle.outcomes : cycle' = [cycle EXCEPT !.next = s]
    BY <1>2 DEF RunAttempt
  <2>2. s \in State /\ s # NoState /\ s \in cycle.outcomes
    BY DEF TypeOK, CycleType
  <2>3. /\ cycle' \in CycleType /\ cycle'.next = s /\ cycle'.kind = cycle.kind
        /\ cycle'.outcomes = cycle.outcomes /\ cycle'.request = cycle.request
        /\ cycle' # NoCycle /\ cycle # NoCycle
    BY <1>2, <2>1, <2>2 DEF RunAttempt, TypeOK, CycleType, NoCycle, Attempt
  <2>4. rpc' \in [Request -> {"none", "created", "ran", "timedOut"}]
    BY <1>2 DEF RunAttempt, TypeOK, AttemptShape
  <2>5. RequestShape(cycle, timeoutCanOccur, handed, rpc)'
    BY <1>2, <2>3 DEF RunAttempt, RequestShape, TypeOK, AttemptShape
  <2>6. AttemptShape(cycle, halted)'
    BY <1>2, <2>2, <2>3 DEF RunAttempt, AttemptShape
  <2>7. QueueShape'
    BY <1>2 DEF RunAttempt, QueueShape, TypeOK
  <2> QED
    BY <1>2, <2>3, <2>4, <2>5, <2>6, <2>7
    DEF RunAttempt, TypeOK, HaltShape, NoLostWakeup, PausedMeansResting, HaltStopsEngine
<1>3. CASE FinishAttempt
  <2>1. cycle # NoCycle /\ currentState' = cycle.next /\ cycle.next \in cycle.outcomes
    BY <1>3 DEF FinishAttempt, AttemptShape
  <2>2. currentState' \in State
    BY <2>1 DEF TypeOK, CycleType
  <2>3. currentState' = Halted => halted'
    BY <1>3, <2>1 DEF FinishAttempt, AttemptShape
  <2>4. RequestShape(NoCycle, timeoutCanOccur, handed, rpc)
    BY DEF RequestShape, NoCycle, Attempt
  <2>5. CyclePost
    BY <1>3, <2>1, <2>2, <2>3, <2>4, StartNextPost
    DEF FinishAttempt, TypeOK, PausedMeansResting
  <2> QED
    BY <1>3, <2>2, <2>3, <2>5
    DEF FinishAttempt, CyclePost, TypeOK, QueueShape, HaltShape, HaltStopsEngine
<1>4. CASE PokeStateMachine
  <2>1. flags \in SUBSET Flag
    BY DEF TypeOK
  <2> QED
    BY <1>4, <2>1, PokePost
    DEF PokeStateMachine, TypeOK, QueueShape, HaltShape, HaltStopsEngine
<1>5. ASSUME NEW f \in Flag, HandleFlag(f) PROVE Inv'
  <2>1. flags \cup {f} \in SUBSET Flag
    BY DEF TypeOK
  <2> QED
    BY <1>5, <2>1, PokePost
    DEF HandleFlag, TypeOK, QueueShape, HaltShape, HaltStopsEngine
<1>6. ASSUME NEW r \in Request, CreateRequest(r) PROVE Inv'
  <2>1. RequestShape(cycle, timeoutCanOccur, handed, rpc)'
    BY <1>6 DEF CreateRequest, RequestShape, TypeOK
  <2>2. QueueShape'
    BY <1>6 DEF CreateRequest, QueueShape, TypeOK
  <2>3. Startable(stateMachineRequests, currentState)'
          = Startable(stateMachineRequests, currentState)
    BY <1>6 DEF CreateRequest, QueueShape, Startable, TypeOK
  <2>4. NoLostWakeup'
    BY <1>6, <2>3 DEF CreateRequest, NoLostWakeup, HasWork, EngineChoices
  <2> QED
    BY <1>6, <2>1, <2>2, <2>4
    DEF CreateRequest, TypeOK, AttemptShape, HaltShape, PausedMeansResting, HaltStopsEngine
<1>7. ASSUME NEW r \in Request, HandleExternalRequest(r) PROVE Inv'
  <2>1. stateMachineRequests' \in Seq(Request) /\ flags \in SUBSET Flag
    BY <1>7 DEF HandleExternalRequest, TypeOK
  <2>2. QueueShape'
    BY <1>7 DEF HandleExternalRequest, QueueShape, TypeOK
  <2> QED
    BY <1>7, <2>1, <2>2, PokePost
    DEF HandleExternalRequest, TypeOK, HaltShape, HaltStopsEngine
<1>8. ASSUME NEW r \in Request, RequestTimeout(r) PROVE Inv'
  <2>1. RequestShape(cycle, timeoutCanOccur, handed, rpc)'
    BY <1>8 DEF RequestTimeout, RequestShape, TypeOK
  <2>2. QueueShape'
    BY <1>8 DEF RequestTimeout, QueueShape, TypeOK
  <2>3. Startable(stateMachineRequests, currentState)'
          \subseteq Startable(stateMachineRequests, currentState)
    BY <1>8 DEF RequestTimeout, Startable, TypeOK
  <2>4. NoLostWakeup'
    BY <1>8, <2>3 DEF RequestTimeout, NoLostWakeup, HasWork, EngineChoices
  <2> QED
    BY <1>8, <2>1, <2>2, <2>4
    DEF RequestTimeout, TypeOK, AttemptShape, HaltShape, PausedMeansResting, HaltStopsEngine
<1>9. ASSUME NEW s \in TestHoldable, TestPause(s) PROVE Inv'
  <2>1. NoLostWakeup'
    BY <1>9 DEF TestPause, NoLostWakeup, HasWork, EngineChoices, Startable, cycleVars
  <2> QED
    BY <1>9, <2>1
    DEF TestPause, TypeOK, AttemptShape, RequestShape, QueueShape, HaltShape, cycleVars,
        PausedMeansResting, HaltStopsEngine
<1>10. ASSUME NEW s \in TestHoldable, TestRelease(s) PROVE Inv'
  <2>1. flags \in SUBSET Flag
    BY DEF TypeOK
  <2> QED
    BY <1>10, <2>1, PokePost
    DEF TestRelease, TypeOK, QueueShape, HaltShape, HaltStopsEngine
<1>11. CASE HaltOperation
  <2>1. flags \in SUBSET Flag
    BY DEF TypeOK
  <2> QED
    BY <1>11, <2>1, PokePost
    DEF HaltOperation, TypeOK, QueueShape, HaltShape, HaltStopsEngine
<1>12. CASE HaltWait
  <2>1. NoCycle.kind = "none"
    BY DEF NoCycle, Attempt
  <2> QED
    BY <1>12, <2>1
    DEF HaltWait, TypeOK, AttemptShape, RequestShape, QueueShape, HaltShape, cycleVars,
        NoLostWakeup, HasWork, EngineChoices, Startable, PausedMeansResting, HaltStopsEngine
<1>13. CASE UNCHANGED coreVars
  BY <1>13
  DEF coreVars, TypeOK, AttemptShape, RequestShape, QueueShape, HaltShape, NoLostWakeup,
      HasWork, EngineChoices, Startable, PausedMeansResting, HaltStopsEngine
<1> QED
  BY <1>1, <1>2, <1>3, <1>4, <1>5, <1>6, <1>7, <1>8, <1>9, <1>10, <1>11, <1>12, <1>13
  DEF Next

HaltStep ==
    /\ currentState = Halted => currentState' = Halted
    /\ (halted /\ cycle' # cycle /\ cycle'.next = NoState)
         => cycle'.kind \in {"none", "halt"}

LEMMA PokeHaltStep ==
    ASSUME Inv, NEW fl \in SUBSET Flag, Poke(fl),
           currentState' = currentState, rpc' = rpc,
           halted' \in BOOLEAN, halted => halted',
           stateMachineRequests' \in Seq(Request)
    PROVE  HaltStep
BY PokePost DEF HaltStep

LEMMA NextHaltStep == Inv /\ [Next]_coreVars => HaltStep
<1> SUFFICES ASSUME Inv, [Next]_coreVars PROVE HaltStep
  OBVIOUS
<1>0. flags \in SUBSET Flag /\ halted \in BOOLEAN /\ stateMachineRequests \in Seq(Request)
  BY DEF Inv, TypeOK
<1>1. CASE StartOperation \/ HaltWait \/ UNCHANGED coreVars
  BY <1>1 DEF StartOperation, HaltWait, coreVars, cycleVars, HaltStep
<1>2. CASE RunAttempt
  <2>1. PICK s \in cycle.outcomes : cycle' = [cycle EXCEPT !.next = s]
    BY <1>2 DEF RunAttempt
  <2> QED
    BY <1>2, <2>1 DEF RunAttempt, Inv, TypeOK, CycleType, HaltStep
<1>3. CASE FinishAttempt
  <2>1. cycle # NoCycle /\ currentState' = cycle.next /\ cycle.next \in cycle.outcomes
    BY <1>3 DEF FinishAttempt, Inv, AttemptShape
  <2>2. currentState' \in State /\ (currentState' = Halted => halted')
    BY <1>3, <2>1 DEF FinishAttempt, Inv, TypeOK, CycleType, AttemptShape
  <2>3. RequestShape(NoCycle, timeoutCanOccur, handed, rpc)
    BY DEF Inv, RequestShape, NoCycle, Attempt
  <2>4. CyclePost
    BY <1>3, <2>1, <2>2, <2>3, StartNextPost
    DEF FinishAttempt, Inv, TypeOK, PausedMeansResting
  <2> QED
    BY <1>3, <2>1, <2>4 DEF FinishAttempt, CyclePost, Inv, HaltShape, HaltStep
<1>4. CASE PokeStateMachine \/ HaltOperation
  BY <1>0, <1>4, PokeHaltStep DEF PokeStateMachine, HaltOperation
<1>5. ASSUME NEW f \in Flag, HandleFlag(f) PROVE HaltStep
  <2>1. flags \cup {f} \in SUBSET Flag
    BY <1>0
  <2> QED
    BY <1>0, <1>5, <2>1, PokeHaltStep DEF HandleFlag
<1>6. ASSUME NEW r \in Request, HandleExternalRequest(r) PROVE HaltStep
  BY <1>0, <1>6, PokeHaltStep DEF HandleExternalRequest
<1>7. ASSUME NEW s \in TestHoldable, TestRelease(s) PROVE HaltStep
  BY <1>0, <1>7, PokeHaltStep DEF TestRelease
<1>8. ASSUME NEW r \in Request, CreateRequest(r) \/ RequestTimeout(r) PROVE HaltStep
  BY <1>8 DEF CreateRequest, RequestTimeout, HaltStep
<1>9. ASSUME NEW s \in TestHoldable, TestPause(s) PROVE HaltStep
  BY <1>9 DEF TestPause, cycleVars, HaltStep
<1> QED
  BY <1>1, <1>2, <1>3, <1>4, <1>5, <1>6, <1>7, <1>8, <1>9 DEF Next

LEMMA InvIsInvariant == Spec => []Inv
BY InitInv, NextInv, PTL DEF Spec

(* Every variable keeps its type.                                          *)
THEOREM TypeCorrect == Spec => []TypeOK
BY InvIsInvariant, PTL DEF Inv

(* The machine never rests with a flag it could handle, a request it could *)
(* start or a halt it owes, in any order of pokes, timeouts, test holds    *)
(* and follow-ups.                                                         *)
THEOREM NoWakeupIsLost == Spec => []NoLostWakeup
BY InvIsInvariant, PTL DEF Inv

(* "paused" is fulfilled exactly while no transition is in flight.         *)
THEOREM PausedIsExact == Spec => []PausedMeansResting
BY InvIsInvariant, PTL DEF Inv

(* An RPC's operation goes to one operation queue only: the machine's or   *)
(* the timeout's.                                                          *)
THEOREM RequestsAreHandedOnce == Spec => []RequestHandedOnce
<1>1. Inv => RequestHandedOnce
  BY DEF Inv, RequestShape, RequestHandedOnce, TypeOK
<1> QED
  BY <1>1, InvIsInvariant, PTL

(* After haltOperation has returned, no engine code runs.                  *)
THEOREM HaltStopsTheEngine == Spec => []HaltStopsEngine
BY InvIsInvariant, PTL DEF Inv

(* A halted machine starts nothing but the halt and never leaves Halted.   *)
THEOREM HaltedForGood == Spec => HaltIsFinal
<1>1. Inv /\ [Next]_coreVars => [HaltStep]_coreVars
  BY NextHaltStep
<1> QED
  BY <1>1, InvIsInvariant, PTL DEF Spec, HaltIsFinal, HaltStep
-----------------------------------------------------------------------------
(* The refinement of OctagonRPC: Inv with where the operation of a running *)
(* request is.                                                             *)

(* A request that can no longer time out is in the attempt in flight until *)
(* its operation has run.                                                  *)
RunningShape(cy, tco, rp) ==
    \A r \in Request :
        rp[r] = "created" /\ ~tco[r] =>
            cy.kind = "request" /\ cy.request = r /\ cy.next = NoState

RPCInv == Inv /\ RunningShape(cycle, timeoutCanOccur, rpc)

(* What a block that looks for work may do to the requests: nothing, or    *)
(* begin one in the state the machine is in.                               *)
MayBegin ==
    \/ timeoutCanOccur' = timeoutCanOccur
    \/ \E r \in Request :
         /\ timeoutCanOccur[r]
         /\ timeoutCanOccur' = [timeoutCanOccur EXCEPT ![r] = FALSE]
         /\ cycle' = RequestAttempt(r)
         /\ currentState' \in SourceStates[r]
         /\ ~halted'

LEMMA StartNextMayBegin ==
    ASSUME NEW im \in BOOLEAN, NEW fl \in SUBSET Flag,
           stateMachineRequests' \in Seq(Request),
           StartNext(im, fl)
    PROVE  MayBegin
<1>1. CASE Rest(fl)
  BY <1>1 DEF Rest, MayBegin
<1>2. CASE HaltNext(fl) \/ EngineNext(fl)
  BY <1>2 DEF HaltNext, EngineNext, MayBegin
<1>3. CASE RequestNext(fl)
  <2>1. PICK i \in Startable(stateMachineRequests', currentState') :
           /\ OnqueueStart(stateMachineRequests'[i])
           /\ cycle' = RequestAttempt(stateMachineRequests'[i])
    BY <1>3 DEF RequestNext
  <2> DEFINE r == stateMachineRequests'[i]
  <2>2. r \in Request /\ currentState' \in SourceStates[r]
    BY <2>1 DEF Startable
  <2> HIDE DEF r
  <2>3. /\ timeoutCanOccur[r] /\ timeoutCanOccur' = [timeoutCanOccur EXCEPT ![r] = FALSE]
        /\ cycle' = RequestAttempt(r)
    BY <2>1 DEF r, OnqueueStart
  <2> QED
    BY <1>3, <2>2, <2>3 DEF RequestNext, MayBegin
<1> QED
  BY <1>1, <1>2, <1>3 DEF StartNext, NextStateMachineTransition

(* A block that begins at most one request, when none is running, keeps    *)
(* the invariant and is a step of the service.                             *)
LEMMA BeginStep ==
    ASSUME RPCInv, Inv', MayBegin, rpc' = rpc,
           halted' = halted, currentState' \in State,
           RunningShape(NoCycle, timeoutCanOccur, rpc)
    PROVE  /\ RunningShape(cycle, timeoutCanOccur, rpc)'
           /\ [RPC!RPCNext]_RPC!rpcVars
<1>0. RPC!NothingRuns
  BY DEF RunningShape, NoCycle, Attempt, RPC!NothingRuns, Answer, RPCInv, Inv, TypeOK
<1>1. CASE timeoutCanOccur' = timeoutCanOccur
  <2>1. RunningShape(cycle, timeoutCanOccur, rpc)'
    BY <1>1 DEF RunningShape, NoCycle, Attempt
  <2>2. Answer' = Answer
    BY <1>1 DEF Answer
  <2> QED
    BY <1>0, <2>1, <2>2 DEF RPC!RPCNext, RPC!Move
<1>2. ASSUME NEW r \in Request,
             timeoutCanOccur[r],
             timeoutCanOccur' = [timeoutCanOccur EXCEPT ![r] = FALSE],
             cycle' = RequestAttempt(r),
             currentState' \in SourceStates[r], ~halted'
      PROVE  /\ RunningShape(cycle, timeoutCanOccur, rpc)'
             /\ RPC!Begin(r)
  <2>1. rpc[r] = "created"
    BY <1>2 DEF RPCInv, Inv, RequestShape
  <2>2. RunningShape(cycle, timeoutCanOccur, rpc)'
    BY <1>2 DEF RPCInv, Inv, TypeOK, RunningShape, NoCycle, RequestAttempt, Attempt
  <2>3. Answer' = [Answer EXCEPT ![r] = "running"] /\ Answer[r] = "waiting"
    BY <1>2, <2>1 DEF RPCInv, Inv, TypeOK, Answer
  <2> QED
    BY <1>0, <1>2, <2>2, <2>3 DEF RPC!Begin
<1> QED
  BY <1>1, <1>2 DEF MayBegin, RPC!RPCNext

(* The same for a block that pokes: with an attempt in flight it leaves    *)
(* the requests alone.                                                     *)
LEMMA PokeStep ==
    ASSUME RPCInv, Inv', NEW fl \in SUBSET Flag, Poke(fl), rpc' = rpc,
           halted' = halted, currentState' = currentState
    PROVE  /\ RunningShape(cycle, timeoutCanOccur, rpc)'
           /\ [RPC!RPCNext]_RPC!rpcVars
<1>1. CASE cycle # NoCycle /\ UNCHANGED cycleVars
  BY <1>1 DEF RPCInv, RunningShape, cycleVars, RPC!rpcVars, Answer
<1>2. CASE cycle = NoCycle /\ StartNext(FALSE, fl)
  <2>1. MayBegin
    BY <1>2, StartNextMayBegin DEF Inv, TypeOK
  <2> QED
    BY <1>2, <2>1, BeginStep DEF RPCInv, Inv, TypeOK
<1> QED
  BY <1>1, <1>2 DEF Poke

LEMMA RPCInitStep == Init => RPCInv /\ RPC!RPCInit
<1> SUFFICES ASSUME Init PROVE RPCInv /\ RPC!RPCInit
  OBVIOUS
<1>1. RPCInv
  BY InitInv DEF Init, RPCInv, RunningShape
<1>2. Answer = [r \in Request |-> "none"]
  <2>1. \A r \in Request : rpc[r] = "none"
    BY DEF Init
  <2> QED
    BY <2>1 DEF Answer
<1> QED
  BY <1>1, <1>2, StatesAssumption DEF Init, RPC!RPCInit, StatesAssumption

LEMMA RPCNextStep ==
    RPCInv /\ [Next]_coreVars => RPCInv' /\ [RPC!RPCNext]_RPC!rpcVars
<1> SUFFICES ASSUME RPCInv, [Next]_coreVars
             PROVE  /\ RunningShape(cycle, timeoutCanOccur, rpc)'
                    /\ [RPC!RPCNext]_RPC!rpcVars
  BY NextInv DEF RPCInv
<1>0. Inv /\ Inv' /\ flags \in SUBSET Flag
  BY NextInv DEF RPCInv, Inv, TypeOK
<1>1. CASE StartOperation \/ HaltWait \/ UNCHANGED coreVars
  BY <1>1 DEF StartOperation, HaltWait, coreVars, cycleVars, RPCInv, RunningShape,
              RPC!rpcVars, Answer
<1>2. CASE RunAttempt
  <2>1. cycle'.kind = cycle.kind /\ cycle'.request = cycle.request
    BY <1>0, <1>2 DEF RunAttempt, Inv, TypeOK, CycleType
  <2>2. CASE cycle.kind # "request"
    BY <1>2, <2>1, <2>2 DEF RunAttempt, RPCInv, RunningShape, RPC!rpcVars, Answer
  <2>3. CASE cycle.kind = "request"
    <3> DEFINE r == cycle.request
    <3>1. /\ r \in Request /\ ~timeoutCanOccur[r]
          /\ rpc[r] = "created" \/ rpc[r] = "ran"
          /\ rpc' = [rpc EXCEPT ![r] = "ran"] /\ timeoutCanOccur' = timeoutCanOccur
      BY <1>0, <1>2, <2>3 DEF RunAttempt, Inv, AttemptShape, RequestShape
    <3>2. RunningShape(cycle, timeoutCanOccur, rpc)'
      BY <1>0, <3>1 DEF RPCInv, RunningShape, Inv, TypeOK
    <3>3. CASE rpc[r] = "created"
      <4>1. Answer[r] = "running" /\ Answer' = [Answer EXCEPT ![r] = "ran"]
        BY <1>0, <3>1, <3>3 DEF Answer, Inv, TypeOK
      <4> QED
        BY <1>2, <3>1, <3>2, <4>1 DEF RunAttempt, RPC!Complete, RPC!RPCNext
    <3>4. CASE rpc[r] = "ran"
      <4>1. Answer' = Answer
        BY <1>0, <3>1, <3>4 DEF Answer, Inv, TypeOK
      <4> QED
        BY <1>2, <3>2, <4>1 DEF RunAttempt, RPC!rpcVars
    <3> QED
      BY <3>1, <3>3, <3>4
  <2> QED
    BY <2>2, <2>3
<1>3. CASE FinishAttempt
  <2>1. RunningShape(NoCycle, timeoutCanOccur, rpc)
    BY <1>3 DEF FinishAttempt, RPCInv, RunningShape
  <2>2. MayBegin
    BY <1>0, <1>3, StartNextMayBegin DEF FinishAttempt, Inv, TypeOK
  <2> QED
    BY <1>0, <1>3, <2>1, <2>2, BeginStep DEF FinishAttempt, Inv, TypeOK
<1>4. CASE PokeStateMachine
  BY <1>0, <1>4, PokeStep DEF PokeStateMachine
<1>5. ASSUME NEW f \in Flag, HandleFlag(f) PROVE RunningShape(cycle, timeoutCanOccur, rpc)' /\ [RPC!RPCNext]_RPC!rpcVars
  <2>1. flags \cup {f} \in SUBSET Flag
    BY <1>0
  <2> QED
    BY <1>0, <1>5, <2>1, PokeStep DEF HandleFlag
<1>6. ASSUME NEW r \in Request, CreateRequest(r)
      PROVE  RunningShape(cycle, timeoutCanOccur, rpc)' /\ [RPC!RPCNext]_RPC!rpcVars
  <2>1. Answer[r] = "none" /\ Answer' = [Answer EXCEPT ![r] = "waiting"]
    BY <1>0, <1>6 DEF CreateRequest, Answer, Inv, TypeOK
  <2>2. RunningShape(cycle, timeoutCanOccur, rpc)'
    BY <1>0, <1>6 DEF CreateRequest, RPCInv, RunningShape, Inv, TypeOK
  <2> QED
    BY <1>6, <2>1, <2>2 DEF CreateRequest, RPC!Make, RPC!RPCNext
<1>7. ASSUME NEW r \in Request, HandleExternalRequest(r)
      PROVE  RunningShape(cycle, timeoutCanOccur, rpc)' /\ [RPC!RPCNext]_RPC!rpcVars
  BY <1>0, <1>7, PokeStep DEF HandleExternalRequest
<1>8. ASSUME NEW r \in Request, RequestTimeout(r)
      PROVE  RunningShape(cycle, timeoutCanOccur, rpc)' /\ [RPC!RPCNext]_RPC!rpcVars
  <2>1. rpc[r] = "created"
    BY <1>0, <1>8 DEF RequestTimeout, Inv, RequestShape
  <2>2. Answer[r] = "waiting" /\ Answer' = [Answer EXCEPT ![r] = "timedOut"]
    BY <1>0, <1>8, <2>1 DEF RequestTimeout, Answer, Inv, TypeOK
  <2>3. RunningShape(cycle, timeoutCanOccur, rpc)'
    BY <1>0, <1>8 DEF RequestTimeout, RPCInv, RunningShape, Inv, TypeOK
  <2> QED
    BY <1>8, <2>2, <2>3 DEF RequestTimeout, RPC!Expire, RPC!RPCNext
<1>9. ASSUME NEW s \in TestHoldable, TestPause(s)
      PROVE  RunningShape(cycle, timeoutCanOccur, rpc)' /\ [RPC!RPCNext]_RPC!rpcVars
  BY <1>9 DEF TestPause, cycleVars, RPCInv, RunningShape, RPC!rpcVars, Answer
<1>10. ASSUME NEW s \in TestHoldable, TestRelease(s)
       PROVE  RunningShape(cycle, timeoutCanOccur, rpc)' /\ [RPC!RPCNext]_RPC!rpcVars
  BY <1>0, <1>10, PokeStep DEF TestRelease
<1>11. CASE HaltOperation
  <2>1. timeoutCanOccur' = timeoutCanOccur
    <3>1. CASE cycle # NoCycle
      BY <1>11, <3>1 DEF HaltOperation, Poke, cycleVars
    <3>2. CASE cycle = NoCycle
      <4>1. MayBegin
        BY <1>0, <1>11, <3>2, StartNextMayBegin DEF HaltOperation, Poke, Inv, TypeOK
      <4> QED
        BY <1>11, <4>1 DEF HaltOperation, MayBegin
    <3> QED
      BY <3>1, <3>2
  <2>2. RunningShape(cycle, timeoutCanOccur, rpc)'
    <3>1. CASE cycle # NoCycle
      BY <1>11, <2>1, <3>1 DEF HaltOperation, Poke, cycleVars, RPCInv, RunningShape
    <3>2. CASE cycle = NoCycle
      BY <1>11, <2>1, <3>2 DEF HaltOperation, RPCInv, RunningShape, NoCycle, Attempt
    <3> QED
      BY <3>1, <3>2
  <2>3. Answer' = Answer
    BY <1>11, <2>1 DEF HaltOperation, Answer
  <2> QED
    BY <1>11, <2>2, <2>3 DEF HaltOperation, RPC!Stop, RPC!RPCNext
<1> QED
  BY <1>1, <1>2, <1>3, <1>4, <1>5, <1>6, <1>7, <1>8, <1>9, <1>10, <1>11 DEF Next

(* The machine serves its RPCs as OctagonRPC promises: one answer each, by *)
(* an operation that begins in a source state and runs alone, or by the    *)
(* timeout, and none begun after the halt.                                 *)
THEOREM MachineServesRPCs == Spec => ServesRPCs
<1>1. RPCInv /\ [Next]_coreVars => RPCInv'
  BY RPCNextStep
<1>2. RPCInv /\ [Next]_coreVars => [RPC!RPCNext]_RPC!rpcVars
  BY RPCNextStep
<1> QED
  BY <1>1, <1>2, RPCInitStep, PTL DEF Spec, ServesRPCs, RPC!RPCSpec
=============================================================================
