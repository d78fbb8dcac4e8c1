------------------------ MODULE OctagonWatchers_proofs ------------------------
(***************************************************************************)
(* The observers of the Octagon state machine, for every machine and every *)
(* set of watchers, paths and states: a result is queued once, a watcher   *)
(* on its path stands where the machine stands, and no arrival is missed.  *)
(*                                                                         *)
(* Every step of the watched machine is a step of the machine or leaves it *)
(* alone, so its invariant Inv carries over; WatcherShape adds that a      *)
(* watcher can time out, and is to be queued, exactly until it completes.  *)
(***************************************************************************)
EXTENDS OctagonWatchers, OctagonStateMachine_proofs

WatcherShape(x) ==
    /\ x.timeoutCanOccur <=> ~x.completed
    /\ x.added = IF x.completed THEN 1 ELSE 0
    /\ x.completed => ~x.active

(* Where an active watcher is, for a machine in state s.                   *)
InStep(w, x, s) ==
    x.active => /\ w \in PathWatcher
                /\ x.walked[Len(x.walked)] = s
                /\ OnPath(w, x.walked)

WatchersInv ==
    /\ Inv
    /\ stateMachineWatchers \subseteq Watcher
    /\ watcher \in [Watcher -> WatcherType]
    /\ \A w \in Watcher :
         /\ WatcherShape(watcher[w])
         /\ watcher[w].active => w \in stateMachineWatchers
         /\ InStep(w, watcher[w], currentState)
    /\ NoMissedArrival

USE WatcherAssumption DEF WatcherAssumption

(* Completing a watcher that has not completed.                            *)
LEMMA StartFinishPost ==
    ASSUME NEW x \in WatcherType, WatcherShape(x), ~x.completed,
           NEW res \in {"success", "failed", "timedOut", "cancelled"}
    PROVE  LET y == StartFinish(x, res) IN
           y \in WatcherType /\ WatcherShape(y) /\ y.completed /\ ~y.active
<1> DEFINE y == StartFinish(x, res)
<1>1. /\ y.timeoutCanOccur = FALSE /\ y.active = FALSE /\ y.completed = TRUE
      /\ y.added = x.added + 1
  BY DEF StartFinish, WatcherType
<1>2. x.added = 0
  BY DEF WatcherShape
<1>3. y \in WatcherType
  <2>1. x.added + 1 \in Nat
    BY <1>2
  <2> HIDE DEF y
  <2>2. y = [x EXCEPT !.timeoutCanOccur = FALSE, !.active = FALSE, !.completed = TRUE,
                      !.result = res, !.added = x.added + 1]
    BY DEF y, StartFinish
  <2> QED
    BY <2>1, <2>2 DEF WatcherType
<1>4. WatcherShape(y)
  BY <1>1, <1>2 DEF WatcherShape
<1> QED
  BY <1>1, <1>3, <1>4

LEMMA EnterStatePost ==
    ASSUME NEW w \in ArrivalWatcher, NEW x \in WatcherType, WatcherShape(x), NEW s \in State
    PROVE  LET y == EnterState(w, x, s) IN
           /\ y \in WatcherType /\ WatcherShape(y)
           /\ y.active => x.active
           /\ x.completed => y.completed
           /\ s \in States[w] \cup FailStates[w] => y.completed
<1>1. CASE x.completed \/ s \notin States[w] \cup FailStates[w]
  BY <1>1 DEF EnterState
<1>2. CASE ~x.completed /\ s \in States[w] \cup FailStates[w]
  <2> DEFINE res == IF s \in FailStates[w] THEN "failed" ELSE "success"
  <2>1. EnterState(w, x, s) = StartFinish(x, res)
    BY <1>2 DEF EnterState
  <2>2. res \in {"success", "failed", "timedOut", "cancelled"}
    OBVIOUS
  <2> HIDE DEF res
  <2> QED
    BY <1>2, <2>1, <2>2, StartFinishPost
<1> QED
  BY <1>1, <1>2

(* A transition of the machine: a watcher that stays on its path has taken *)
(* the step, one that leaves it has completed.                             *)
LEMMA HandleTransitionPost ==
    ASSUME NEW w \in Watcher, NEW x \in WatcherType, WatcherShape(x), NEW s \in State,
           x.active => w \in PathWatcher
    PROVE  LET y == HandleTransition(w, x, s) IN
           /\ y \in WatcherType /\ WatcherShape(y)
           /\ x.completed => y.completed
           /\ InStep(w, y, s)
           /\ w \in ArrivalWatcher /\ s \in States[w] \cup FailStates[w] => y.completed
<1>1. CASE w \in ArrivalWatcher
  <2>1. HandleTransition(w, x, s) = EnterState(w, x, s) /\ ~x.active
    BY <1>1 DEF HandleTransition
  <2> QED
    BY <1>1, <2>1, EnterStatePost DEF InStep
<1>2. CASE w \in PathWatcher /\ (x.completed \/ ~(x.active \/ s = PathStart(w)))
  BY <1>2 DEF HandleTransition, InStep, WatcherShape
<1>3. CASE w \in PathWatcher /\ ~x.completed /\ (x.active \/ s = PathStart(w))
  <2> DEFINE steps == Append(x.walked, s)
             z == [x EXCEPT !.walked = steps]
             y == HandleTransition(w, x, s)
  <2>1. y = ProcessTransition(w, x, s)
    BY <1>3 DEF HandleTransition
  <2>2. steps \in Seq(State) /\ Len(steps) = Len(x.walked) + 1 /\ steps[Len(steps)] = s
    BY DEF WatcherType
  <2>3. z \in WatcherType /\ WatcherShape(z) /\ ~z.completed
    BY <1>3, <2>2 DEF WatcherType, WatcherShape
  <2>4. CASE ~OnPath(w, steps)
    BY <1>3, <2>1, <2>4, StartFinishPost DEF ProcessTransition, InStep
  <2>5. CASE OnPath(w, steps) /\ steps \in Paths[w]
    <3>1. y = StartFinish(z, "success")
      BY <2>1, <2>5 DEF ProcessTransition
    <3> HIDE DEF z
    <3> QED
      BY <1>3, <2>3, <3>1, StartFinishPost DEF InStep
  <2>6. CASE OnPath(w, steps) /\ steps \notin Paths[w]
    <3>1. y = [x EXCEPT !.walked = steps, !.active = TRUE]
      BY <2>1, <2>6 DEF ProcessTransition
    <3>2. y \in WatcherType /\ WatcherShape(y) /\ y.walked = steps
      BY <1>3, <2>2, <3>1 DEF WatcherType, WatcherShape
    <3> QED
      BY <1>3, <2>2, <2>6, <3>2 DEF InStep
  <2> QED
    BY <2>4, <2>5, <2>6
<1> QED
  BY <1>1, <1>2, <1>3 DEF Watcher

(* The machine's own steps are those of the machine alone.                 *)
LEMMA WatchersStepIsMachineStep == [WatchersNext]_vars => [Next]_coreVars
BY DEF WatchersNext, vars, FinishAttemptAndNotify, RegisterStateTransitionWatcher,
   RegisterMultiStateArrivalWatcher, WatcherTimeout, InitialTimeoutListener,
   CompleteWithErrorIfPending, HandleWatchedRequest, Next

LEMMA WatchersInitInv == WatchersInit => WatchersInv
<1> SUFFICES ASSUME WatchersInit PROVE WatchersInv
  OBVIOUS
<1>1. Fresh \in WatcherType /\ WatcherShape(Fresh) /\ ~Fresh.active
  BY DEF Fresh, WatcherType, WatcherShape
<1> QED
  BY <1>1, InitInv DEF WatchersInit, WatchersInv, NoMissedArrival, InStep

(* A step that completes one watcher, or none, and leaves the machine      *)
(* where it is.                                                            *)
LEMMA OneWatcherStep ==
    ASSUME WatchersInv, NEW w \in Watcher, NEW y \in WatcherType, WatcherShape(y),
           watcher' = [watcher EXCEPT ![w] = y],
           ~y.active, watcher[w].completed => y.completed,
           stateMachineWatchers' = stateMachineWatchers, currentState' = currentState,
           Inv'
    PROVE  WatchersInv'
BY DEF WatchersInv, NoMissedArrival, InStep, OnPath

LEMMA WatchersNextInv == WatchersInv /\ [WatchersNext]_vars => WatchersInv'
<1> SUFFICES ASSUME WatchersInv, [WatchersNext]_vars PROVE WatchersInv'
  OBVIOUS
<1>0. Inv'
  BY NextInv, WatchersStepIsMachineStep DEF WatchersInv
<1>1. CASE FinishAttemptAndNotify
  <2> DEFINE s == cycle.next
  <2>1. s \in State /\ currentState' = s
    BY <1>0, <1>1 DEF FinishAttemptAndNotify, FinishAttempt, Inv, TypeOK
  <2>2. /\ stateMachineWatchers' \subseteq stateMachineWatchers
        /\ \A w \in stateMachineWatchers \ stateMachineWatchers' : watcher'[w].completed
    BY <1>1 DEF FinishAttemptAndNotify
  <2>3. /\ watcher' = [w \in Watcher |-> watcher'[w]]
        /\ \A w \in stateMachineWatchers :
             watcher'[w] = HandleTransition(w, watcher[w], s)
        /\ \A w \in Watcher \ stateMachineWatchers : watcher'[w] = watcher[w]
    BY <1>1 DEF FinishAttemptAndNotify, WatchersInv
  <2>4. ASSUME NEW w \in Watcher
        PROVE  /\ watcher'[w] \in WatcherType /\ WatcherShape(watcher'[w])
               /\ watcher'[w].active => w \in stateMachineWatchers'
               /\ InStep(w, watcher'[w], s)
               /\ /\ w \in stateMachineWatchers \cap ArrivalWatcher
                  /\ s \in States[w] \cup FailStates[w]
                  => watcher'[w].completed
    <3>1. CASE w \in stateMachineWatchers
      <4>1. /\ watcher[w] \in WatcherType /\ WatcherShape(watcher[w])
            /\ watcher[w].active => w \in PathWatcher
        BY DEF WatchersInv, InStep
      <4>2. /\ watcher'[w] \in WatcherType /\ WatcherShape(watcher'[w])
            /\ InStep(w, watcher'[w], s)
            /\ w \in ArrivalWatcher /\ s \in States[w] \cup FailStates[w]
                 => watcher'[w].completed
        BY <2>1, <2>3, <3>1, <4>1, HandleTransitionPost
      <4>3. watcher'[w].active => w \in stateMachineWatchers'
        BY <2>2, <3>1, <4>2 DEF WatcherShape
      <4> QED
        BY <4>2, <4>3
    <3>2. CASE w \notin stateMachineWatchers
      BY <2>3, <3>2 DEF WatchersInv, InStep
    <3> QED
      BY <3>1, <3>2
  <2>5. watcher' \in [Watcher -> WatcherType]
    BY <2>3, <2>4
  <2>6. NoMissedArrival'
    BY <2>1, <2>2, <2>4 DEF NoMissedArrival, Watcher
  <2>7. \A w \in Watcher : (InStep(w, watcher[w], currentState))'
    BY <2>1, <2>4 DEF InStep, OnPath
  <2>8. \A w \in Watcher :
          WatcherShape(watcher[w])' /\ (watcher[w].active => w \in stateMachineWatchers)'
    BY <2>4 DEF WatcherShape
  <2> QED
    BY <1>0, <2>2, <2>5, <2>6, <2>7, <2>8 DEF WatchersInv
<1>2. ASSUME NEW w \in PathWatcher, RegisterStateTransitionWatcher(w) PROVE WatchersInv'
  BY <1>0, <1>2 DEF RegisterStateTransitionWatcher, PokeStateMachine, WatchersInv,
     NoMissedArrival, InStep, OnPath, Watcher
<1>3. ASSUME NEW w \in PathWatcher, InitialTimeoutListener(w) PROVE WatchersInv'
  <2>1. watcher[w] \in WatcherType /\ WatcherShape(watcher[w]) /\ ~watcher[w].completed
    BY <1>3 DEF InitialTimeoutListener, WatchersInv, WatcherShape, Watcher
  <2>2. watcher' = [watcher EXCEPT ![w] = StartFinish(watcher[w], "timedOut")]
    BY <1>3 DEF InitialTimeoutListener, PerformTimeout
  <2> QED
    BY <1>0, <1>3, <2>1, <2>2, StartFinishPost, OneWatcherStep
    DEF InitialTimeoutListener, coreVars, Watcher
<1>4. ASSUME NEW w \in ArrivalWatcher, RegisterMultiStateArrivalWatcher(w)
      PROVE  WatchersInv'
  <2>1. CASE currentState \in States[w] \cup FailStates[w]
    <3>1. /\ watcher[w] \in WatcherType /\ WatcherShape(watcher[w])
          /\ ~watcher[w].active /\ w \in Watcher /\ currentState \in State
      BY DEF WatchersInv, InStep, Watcher, Inv, TypeOK
    <3>2. /\ watcher' = [watcher EXCEPT ![w] = EnterState(w, watcher[w], currentState)]
          /\ UNCHANGED <<stateMachineWatchers, coreVars>>
      BY <1>4, <2>1 DEF RegisterMultiStateArrivalWatcher
    <3> QED
      BY <1>0, <3>1, <3>2, EnterStatePost, OneWatcherStep DEF coreVars
  <2>2. CASE currentState \notin States[w] \cup FailStates[w]
    BY <1>0, <1>4, <2>2 DEF RegisterMultiStateArrivalWatcher, PokeStateMachine,
       WatchersInv, NoMissedArrival, InStep, OnPath, Watcher
  <2> QED
    BY <2>1, <2>2
<1>5. ASSUME NEW w \in ArrivalWatcher, CompleteWithErrorIfPending(w) PROVE WatchersInv'
  <2>1. watcher[w] \in WatcherType /\ WatcherShape(watcher[w]) /\ ~watcher[w].completed
    BY <1>5 DEF CompleteWithErrorIfPending, WatchersInv, Watcher
  <2> QED
    BY <1>0, <1>5, <2>1, StartFinishPost, OneWatcherStep
    DEF CompleteWithErrorIfPending, coreVars, Watcher
<1>6. ASSUME NEW w \in Watcher, WatcherTimeout(w) PROVE WatchersInv'
  <2>1. watcher[w] \in WatcherType /\ WatcherShape(watcher[w]) /\ ~watcher[w].completed
    BY <1>6 DEF WatcherTimeout, WatchersInv, WatcherShape
  <2>2. watcher' = [watcher EXCEPT ![w] = StartFinish(watcher[w], "timedOut")]
    BY <1>6 DEF WatcherTimeout, PerformTimeout
  <2> QED
    BY <1>0, <1>6, <2>1, <2>2, StartFinishPost, OneWatcherStep DEF WatcherTimeout, coreVars
<1>7. CASE UNCHANGED watcherVars /\ currentState' = currentState
  BY <1>0, <1>7 DEF watcherVars, WatchersInv, NoMissedArrival, InStep, OnPath
<1> QED
  BY <1>1, <1>2, <1>3, <1>4, <1>5, <1>6, <1>7
  DEF WatchersNext, vars, coreVars, HandleWatchedRequest, StartOperation, RunAttempt,
      HaltOperation, HandleFlag, CreateRequest, RequestTimeout, HandleExternalRequest

LEMMA WatchersInvariant == WatchersSpec => []WatchersInv
BY WatchersInitInv, WatchersNextInv, PTL DEF WatchersSpec

(* The watchers and the machine under them keep their types.               *)
THEOREM WatchersTypeCorrect == WatchersSpec => []WatchersTypeOK
<1>1. WatchersInv => WatchersTypeOK
  BY DEF WatchersInv, WatchersTypeOK, Inv
<1> QED
  BY <1>1, WatchersInvariant, PTL

(* A result operation is put on a queue once, whichever of the step, the   *)
(* timers and the owner comes first.                                       *)
THEOREM ResultIsQueuedOnce == WatchersSpec => []ResultQueuedOnce
<1>1. WatchersInv => ResultQueuedOnce
  BY DEF WatchersInv, WatcherShape, ResultQueuedOnce
<1> QED
  BY <1>1, WatchersInvariant, PTL

(* An active watcher is registered and stands where the machine stands.    *)
THEOREM WatchersKeepInStep == WatchersSpec => []WatcherInStep
<1>1. WatchersInv => WatcherInStep
  BY DEF WatchersInv, InStep, WatcherInStep, Watcher
<1> QED
  BY <1>1, WatchersInvariant, PTL

(* A registered arrival watcher has completed when the machine is where it *)
(* waits.                                                                  *)
THEOREM NoArrivalIsMissed == WatchersSpec => []NoMissedArrival
<1>1. WatchersInv => NoMissedArrival
  BY DEF WatchersInv
<1> QED
  BY <1>1, WatchersInvariant, PTL
=============================================================================
