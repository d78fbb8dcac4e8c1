--------------------------- MODULE OctagonWatchers ---------------------------
(***************************************************************************)
(* The observers of the Octagon state machine: transition watchers, which  *)
(* follow the machine along a path of states, and arrival watchers, which  *)
(* wait for any of a set of states.  The result of a watcher is an         *)
(* operation, put on an operation queue when the watcher completes: by     *)
(* reaching its goal, by leaving its path, by a timeout of its own, by the *)
(* timeout of the request it belongs to, or by its owner.                  *)
(*                                                                         *)
(* A path (OctagonStateTransitionPath, a tree of states) is the set of its *)
(* root-to-leaf sequences; all begin with the path's initial state.        *)
(***************************************************************************)
EXTENDS OctagonStateMachine

CONSTANTS
    PathWatcher, Paths,     \* Paths[w]: the root-to-leaf sequences
    RequestOf,              \* initialRequest of a path watcher, or NoRequest
    ArrivalWatcher, States, FailStates

Watcher == PathWatcher \cup ArrivalWatcher

ASSUME WatcherAssumption ==
    /\ PathWatcher \cap ArrivalWatcher = {}
    /\ Paths \in [PathWatcher -> SUBSET Seq(State)]
    /\ \A w \in PathWatcher : /\ Paths[w] # {}
                              /\ \A p, q \in Paths[w] : p # <<>> /\ p[1] = q[1]
    /\ RequestOf \in [PathWatcher -> Request \cup {NoRequest}]
    /\ States \in [ArrivalWatcher -> SUBSET State]
    /\ FailStates \in [ArrivalWatcher -> SUBSET State]

VARIABLES
    stateMachineWatchers,   \* the registered watchers
    watcher                 \* the state of each watcher object

watcherVars == <<stateMachineWatchers, watcher>>
vars == <<coreVars, watcherVars>>

WatcherType ==
    [timeoutCanOccur : BOOLEAN, active : BOOLEAN, completed : BOOLEAN,
     walked : Seq(State),       \* the steps taken from the path's root
     result : {"none", "success", "failed", "timedOut", "cancelled"},
     added : Nat]               \* times the result was put on a queue
Fresh == [timeoutCanOccur |-> TRUE, active |-> FALSE, completed |-> FALSE,
          walked |-> <<>>, result |-> "none", added |-> 0]

Pick(S) == CHOOSE x \in S : TRUE
PathStart(w) == Pick(Paths[w])[1]
OnPath(w, steps) ==
    \E p \in Paths[w] : Len(steps) <= Len(p) /\ SubSeq(p, 1, Len(steps)) = steps
-----------------------------------------------------------------------------
(* Mutant: a completed watcher's timer stays armed.                        *)
StartFinishKeepsTimer(x, res) ==
    [x EXCEPT !.active = FALSE, !.completed = TRUE, !.result = res, !.added = @ + 1]

(* onqueueStartFinishOperation of either kind.                             *)
StartFinish(x, res) ==
    [x EXCEPT !.timeoutCanOccur = FALSE, !.active = FALSE, !.completed = TRUE,
              !.result = res, !.added = @ + 1]

(* Mutant: a step off the path is not noticed.                             *)
ProcessTransitionStays(w, x, s) ==
    LET steps == Append(x.walked, s) IN
    IF ~OnPath(w, steps) THEN x
    ELSE IF steps \in Paths[w]
         THEN StartFinish([x EXCEPT !.walked = steps], "success")
         ELSE [x EXCEPT !.walked = steps, !.active = TRUE]

ProcessTransition(w, x, s) ==
    LET steps == Append(x.walked, s) IN
    IF ~OnPath(w, steps) THEN StartFinish(x, "failed")
    ELSE IF steps \in Paths[w]
         THEN StartFinish([x EXCEPT !.walked = steps], "success")
         ELSE [x EXCEPT !.walked = steps, !.active = TRUE]

EnterState(w, x, s) ==
    IF x.completed \/ s \notin States[w] \cup FailStates[w] THEN x
    ELSE StartFinish(x, IF s \in FailStates[w] THEN "failed" ELSE "success")

(* onqueueHandleTransition, for an attempt that ended in state s.          *)
HandleTransition(w, x, s) ==
    IF w \in ArrivalWatcher THEN EnterState(w, x, s)
    ELSE IF x.completed \/ ~(x.active \/ s = PathStart(w)) THEN x
         ELSE ProcessTransition(w, x, s)

PerformTimeout(x) == IF x.timeoutCanOccur THEN StartFinish(x, "timedOut") ELSE x
-----------------------------------------------------------------------------
WatchersInit ==
    /\ Init
    /\ stateMachineWatchers = {}
    /\ watcher = [w \in Watcher |-> Fresh]

(* The watcher object of a watched RPC is made right after its request.    *)
Exists(w) ==
    w \in PathWatcher => (RequestOf[w] # NoRequest => rpc[RequestOf[w]] # "none")

(* A follow-up first tells the watchers, then drops those whose result     *)
(* operation has run by then (any of the completed ones: it runs on a      *)
(* queue of its own), then moves the machine on.                           *)
FinishAttemptAndNotify ==
    /\ FinishAttempt
    /\ watcher' = [w \in Watcher |->
           IF w \in stateMachineWatchers
           THEN HandleTransition(w, watcher[w], cycle.next) ELSE watcher[w]]
    /\ \E done \in SUBSET {w \in stateMachineWatchers : watcher'[w].completed} :
         stateMachineWatchers' = stateMachineWatchers \ done

RegisterStateTransitionWatcher(w) ==
    /\ Exists(w)
    /\ w \notin stateMachineWatchers
    /\ stateMachineWatchers' = stateMachineWatchers \cup {w}
    /\ UNCHANGED watcher
    /\ PokeStateMachine

(* Mutant: the state the machine is in at registration is not looked at.   *)
RegisterMultiStateArrivalWatcherBlindly(w) ==
    /\ w \notin stateMachineWatchers
    /\ stateMachineWatchers' = stateMachineWatchers \cup {w}
    /\ UNCHANGED watcher
    /\ PokeStateMachine

(* An arrival watcher for the current state completes at once, and is not  *)
(* put in the list.                                                        *)
RegisterMultiStateArrivalWatcher(w) ==
    /\ w \notin stateMachineWatchers
    /\ IF currentState \in States[w] \cup FailStates[w]
       THEN /\ watcher' = [watcher EXCEPT ![w] = EnterState(w, @, currentState)]
            /\ UNCHANGED <<stateMachineWatchers, coreVars>>
       ELSE /\ stateMachineWatchers' = stateMachineWatchers \cup {w}
            /\ UNCHANGED watcher
            /\ PokeStateMachine

WatcherTimeout(w) ==
    /\ Exists(w)
    /\ watcher[w].timeoutCanOccur
    /\ watcher' = [watcher EXCEPT ![w] = PerformTimeout(@)]
    /\ UNCHANGED <<coreVars, stateMachineWatchers>>

(* Mutant: the listener only ends a watcher that has started on its path.  *)
InitialTimeoutListenerIfActive(w) ==
    /\ RequestOf[w] # NoRequest
    /\ rpc[RequestOf[w]] = "timedOut"
    /\ watcher[w].timeoutCanOccur /\ watcher[w].active
    /\ watcher' = [watcher EXCEPT ![w] = PerformTimeout(@)]
    /\ UNCHANGED <<coreVars, stateMachineWatchers>>

(* initialTimeoutListenerOp: depends on the request's operation and looks  *)
(* whether it timed out.                                                   *)
InitialTimeoutListener(w) ==
    /\ RequestOf[w] # NoRequest
    /\ rpc[RequestOf[w]] = "timedOut"
    /\ watcher[w].timeoutCanOccur
    /\ watcher' = [watcher EXCEPT ![w] = PerformTimeout(@)]
    /\ UNCHANGED <<coreVars, stateMachineWatchers>>

CompleteWithErrorIfPending(w) ==
    /\ ~watcher[w].completed
    /\ watcher' = [watcher EXCEPT ![w] = StartFinish(@, "cancelled")]
    /\ UNCHANGED <<coreVars, stateMachineWatchers>>

(* doWatchedStateMachineRPC registers the watcher before it hands the      *)
(* request over.                                                           *)
HandleWatchedRequest(r) ==
    /\ \A w \in PathWatcher :
         RequestOf[w] = r => w \in stateMachineWatchers \/ watcher[w].completed
    /\ HandleExternalRequest(r)
    /\ UNCHANGED watcherVars

WatchersNext ==
    \/ FinishAttemptAndNotify
    \/ \E w \in PathWatcher : \/ RegisterStateTransitionWatcher(w)
                              \/ InitialTimeoutListener(w)
    \/ \E w \in ArrivalWatcher : \/ RegisterMultiStateArrivalWatcher(w)
                                 \/ CompleteWithErrorIfPending(w)
    \/ \E w \in Watcher : WatcherTimeout(w)
    \/ \E r \in Request : HandleWatchedRequest(r)
    \/ /\ \/ StartOperation \/ RunAttempt \/ HaltOperation
          \/ \E f \in Flag : HandleFlag(f)
          \/ \E r \in Request : CreateRequest(r) \/ RequestTimeout(r)
       /\ UNCHANGED watcherVars

WatchersSpec == WatchersInit /\ [][WatchersNext]_vars

(* The operation queues and the request timers run; a watcher's own timer  *)
(* is not counted on.                                                      *)
WatchersFairness ==
    /\ WF_vars(FinishAttemptAndNotify) /\ WF_vars(RunAttempt /\ UNCHANGED watcherVars)
    /\ \A w \in PathWatcher : WF_vars(InitialTimeoutListener(w))
    /\ \A r \in Request : WF_vars(RequestTimeout(r) /\ UNCHANGED watcherVars)

WatchersFairSpec == WatchersSpec /\ WatchersFairness
-----------------------------------------------------------------------------
WatchersTypeOK ==
    /\ TypeOK
    /\ stateMachineWatchers \subseteq Watcher
    /\ watcher \in [Watcher -> WatcherType]

(* Whatever races (a step, the watcher's timer, its request's timeout, its *)
(* owner), the result operation is queued once; twice would throw.         *)
ResultQueuedOnce == \A w \in Watcher : watcher[w].added <= 1

(* An active watcher stands where the machine stands: no transition passed *)
(* it by since it became active.                                           *)
WatcherInStep ==
    \A w \in PathWatcher : watcher[w].active =>
        /\ w \in stateMachineWatchers
        /\ watcher[w].walked[Len(watcher[w].walked)] = currentState
        /\ OnPath(w, watcher[w].walked)

(* No arrival is missed, at registration or later: while the machine is in *)
(* a state a registered watcher waits for, the watcher has completed.      *)
NoMissedArrival ==
    \A w \in stateMachineWatchers \cap ArrivalWatcher :
        currentState \in States[w] \cup FailStates[w] => watcher[w].completed

(* A watched RPC whose request never got to run is still answered, through *)
(* the timeout of the request.                                             *)
TimedOutRequestIsAnswered ==
    \A w \in PathWatcher : RequestOf[w] # NoRequest =>
        (rpc[RequestOf[w]] \in {"created", "timedOut"}
            ~> watcher[w].completed \/ rpc[RequestOf[w]] = "ran")
=============================================================================
