------------------------- MODULE OctagonPendingFlags -------------------------
(***************************************************************************)
(* Pending flags of the Octagon state machine: flags that are to be set    *)
(* later, after a delay, after an operation, once the device is unlocked   *)
(* or once the network is reachable.  A pending flag is delivered only by  *)
(* _onqueueSendAnyPendingFlags, so something must call it again for every  *)
(* flag that is left behind: the scheduler for a delay, a block on the     *)
(* operation queue for an operation, a check operation for a condition.    *)
(*                                                                         *)
(* Time is abstracted to whether a flag's fireTime has passed.  The two    *)
(* trackers are the set "available", which changes at any time; a check    *)
(* operation depends on the tracker's dependency, which finishes the next  *)
(* time its condition becomes available ("signalled").                     *)
(***************************************************************************)
EXTENDS OctagonStateMachine

CONSTANTS
    Condition,      \* OctagonPendingConditions
    AfterOp, NoOp,  \* operations a pending flag may wait for
    NoPending,
    Handed          \* the pending flags clients make, per flag

ASSUME PendingAssumption == NoOp \notin AfterOp

(* The initializers of OctagonPendingFlag: conditions with at most one of  *)
(* a delay and an operation.                                               *)
PendingFlag ==
    {p \in [timer : {"none", "waiting", "elapsed"}, after : AfterOp \cup {NoOp},
            conditions : SUBSET Condition] : p.timer = "none" \/ p.after = NoOp}
ASSUME NoPendingAssumption == NoPending \notin PendingFlag
ASSUME HandedAssumption ==
    Handed \in [Flag -> SUBSET {p \in PendingFlag : p.timer # "elapsed"}]

VARIABLES
    allowPendingFlags,
    pendingFlags,           \* at most one per flag
    conditionChecksInFlight,
    currentConditions,      \* conditions seen available when last checked
    armed,                  \* pendingFlagsScheduler has a request
    afterBlocks,            \* operations some queued block still waits for
    finishedOps,            \* the operations that have finished
    available,              \* the conditions the trackers report
    signalled,              \* checks in flight whose dependency has finished
    metSince                \* history: conditions available at some moment
                            \* since the flag was made pending

pendingVars == <<allowPendingFlags, pendingFlags, conditionChecksInFlight,
                 currentConditions, armed, afterBlocks, finishedOps, available,
                 signalled, metSince>>
vars == <<coreVars, pendingVars>>
queueVars == <<hold, currentState, testHoldStates, halted, halter,
               stateMachineRequests, rpc>>
-----------------------------------------------------------------------------
IsPending(pf, f) == pf[f] # NoPending
Waiting(pf) == {f \in Flag : IsPending(pf, f) /\ pf[f].timer = "waiting"}

(* What _onqueueSendAnyPendingFlags would send: it trusts the conditions   *)
(* seen at the last check.                                                 *)
Ready(pf, seen) ==
    {f \in Flag : /\ IsPending(pf, f)
                  /\ pf[f].timer # "waiting"
                  /\ pf[f].after \in finishedOps \cup {NoOp}
                  /\ pf[f].conditions \subseteq seen}

(* Mutant: the scheduler is not armed for the flags that are left behind.  *)
SendAnyPendingFlagsOnce(pf, live, since) ==
    IF ~allowPendingFlags
    THEN /\ pendingFlags' = pf /\ armed' = live /\ metSince' = since
         /\ UNCHANGED <<flags, cycleVars>>
    ELSE LET sent == Ready(pf, currentConditions') IN
         /\ pendingFlags' = [f \in Flag |-> IF f \in sent THEN NoPending ELSE pf[f]]
         /\ armed' = live
         /\ metSince' = [f \in Flag |-> IF f \in sent THEN {} ELSE since[f]]
         /\ IF sent = {} THEN UNCHANGED <<flags, cycleVars>> ELSE Poke(flags \cup sent)

(* Sends what is ready and re-arms the scheduler for what still waits for  *)
(* its time; "live" says whether the scheduler has a request already, and  *)
(* "since" is the history to keep for the flags that stay pending.         *)
SendAnyPendingFlags(pf, live, since) ==
    IF ~allowPendingFlags
    THEN /\ pendingFlags' = pf /\ armed' = live /\ metSince' = since
         /\ UNCHANGED <<flags, cycleVars>>
    ELSE LET sent == Ready(pf, currentConditions') IN
         /\ pendingFlags' = [f \in Flag |-> IF f \in sent THEN NoPending ELSE pf[f]]
         /\ armed' = (live \/ Waiting(pf) # {})
         /\ metSince' = [f \in Flag |-> IF f \in sent THEN {} ELSE since[f]]
         /\ IF sent = {} THEN UNCHANGED <<flags, cycleVars>> ELSE Poke(flags \cup sent)

(* Mutant: a condition that was met once counts as met ever after.         *)
RecheckConditionsRemembers(pf, inFlight) ==
    LET needed == UNION {pf[f].conditions : f \in {g \in Flag : IsPending(pf, g)}}
        toCheck == IF allowPendingFlags THEN needed \ inFlight ELSE {}
    IN  /\ currentConditions' = currentConditions \cup (toCheck \cap available)
        /\ conditionChecksInFlight' = inFlight \cup (toCheck \ available)

(* Mutant: a condition seen at the last check is not looked at again.      *)
RecheckConditionsOnlyUnseen(pf, inFlight) ==
    LET needed == UNION {pf[f].conditions : f \in {g \in Flag : IsPending(pf, g)}}
        toCheck == IF allowPendingFlags
                   THEN needed \ (inFlight \cup currentConditions) ELSE {}
    IN  /\ currentConditions' = currentConditions \cup (toCheck \cap available)
        /\ conditionChecksInFlight' = inFlight \cup (toCheck \ available)

(* Looks at each condition some pending flag needs and no check waits for; *)
(* an unavailable one gets a check operation.                              *)
RecheckConditions(pf, inFlight) ==
    LET needed == UNION {pf[f].conditions : f \in {g \in Flag : IsPending(pf, g)}}
        toCheck == IF allowPendingFlags THEN needed \ inFlight ELSE {}
    IN  /\ currentConditions' = (currentConditions \ toCheck)
                                  \cup (toCheck \cap available)
        /\ conditionChecksInFlight' = inFlight \cup (toCheck \ available)
-----------------------------------------------------------------------------
PendingInit ==
    /\ Init
    /\ allowPendingFlags = TRUE
    /\ pendingFlags = [f \in Flag |-> NoPending]
    /\ conditionChecksInFlight = {} /\ currentConditions = {}
    /\ armed = FALSE
    /\ afterBlocks = {} /\ finishedOps = {}
    /\ available \in SUBSET Condition
    /\ signalled = {}
    /\ metSince = [f \in Flag |-> {}]

(* Mutant: a block is queued behind the operation even when there is none. *)
HandlePendingFlagAfterNil(f, p) ==
    /\ LET pf == [pendingFlags EXCEPT ![f] = p] IN
         /\ UNCHANGED queueVars
         /\ RecheckConditions(pf, conditionChecksInFlight)
         /\ SendAnyPendingFlags(pf, armed, [metSince EXCEPT ![f] = available])
    /\ afterBlocks' = afterBlocks \cup {p.after}
    /\ UNCHANGED <<allowPendingFlags, finishedOps, available, signalled>>

(* A new pending flag replaces the one before it.                          *)
HandlePendingFlag(f, p) ==
    /\ LET pf == [pendingFlags EXCEPT ![f] = p] IN
         /\ UNCHANGED queueVars
         /\ RecheckConditions(pf, conditionChecksInFlight)
         /\ SendAnyPendingFlags(pf, armed, [metSince EXCEPT ![f] = available])
    /\ afterBlocks' = afterBlocks \cup ({p.after} \ {NoOp})
    /\ UNCHANGED <<allowPendingFlags, finishedOps, available, signalled>>

(* The block queued behind an operation.                                   *)
AfterOperationBlock(op) ==
    /\ op \in afterBlocks \cap finishedOps
    /\ afterBlocks' = afterBlocks \ {op}
    /\ UNCHANGED <<queueVars, allowPendingFlags, conditionChecksInFlight,
                   currentConditions, finishedOps, available, signalled>>
    /\ SendAnyPendingFlags(pendingFlags, armed, metSince)

(* The block of pendingFlagsScheduler.                                     *)
SchedulerFires ==
    /\ armed
    /\ UNCHANGED <<queueVars, allowPendingFlags, conditionChecksInFlight,
                   currentConditions, afterBlocks, finishedOps, available,
                   signalled>>
    /\ SendAnyPendingFlags(pendingFlags, FALSE, metSince)

(* Mutant: the check operation only notes that its condition has come.     *)
CheckOperationSendsNothing(c) ==
    /\ c \in conditionChecksInFlight \cap signalled
    /\ signalled' = signalled \ {c}
    /\ UNCHANGED <<coreVars, pendingFlags, armed, metSince, allowPendingFlags,
                   afterBlocks, finishedOps, available>>
    /\ RecheckConditions(pendingFlags, conditionChecksInFlight \ {c})

(* checkUnlockOperation and checkReachabilityOperation.                    *)
CheckOperation(c) ==
    /\ c \in conditionChecksInFlight \cap signalled
    /\ signalled' = signalled \ {c}
    /\ UNCHANGED <<queueVars, allowPendingFlags, afterBlocks, finishedOps,
                   available>>
    /\ RecheckConditions(pendingFlags, conditionChecksInFlight \ {c})
    /\ SendAnyPendingFlags(pendingFlags, armed, metSince)

DisablePendingFlags ==
    /\ allowPendingFlags' = FALSE
    /\ UNCHANGED <<coreVars, pendingFlags, conditionChecksInFlight,
                   currentConditions, armed, afterBlocks, finishedOps, available,
                   signalled, metSince>>

(* The world: a fireTime passes, an operation finishes, a tracker notices  *)
(* that its condition has come or gone.                                    *)
DelayEnds(f) ==
    /\ f \in Waiting(pendingFlags)
    /\ pendingFlags' = [pendingFlags EXCEPT ![f].timer = "elapsed"]
    /\ UNCHANGED <<coreVars, allowPendingFlags, conditionChecksInFlight,
                   currentConditions, armed, afterBlocks, finishedOps, available,
                   signalled, metSince>>

OperationFinishes(op) ==
    /\ finishedOps' = finishedOps \cup {op}
    /\ UNCHANGED <<coreVars, allowPendingFlags, pendingFlags,
                   conditionChecksInFlight, currentConditions, armed, afterBlocks,
                   available, signalled, metSince>>

BecomesAvailable(c) ==
    /\ available' = available \cup {c}
    /\ signalled' = signalled \cup ({c} \cap conditionChecksInFlight)
    /\ metSince' = [f \in Flag |-> IF IsPending(pendingFlags, f)
                                   THEN metSince[f] \cup {c} ELSE metSince[f]]
    /\ UNCHANGED <<coreVars, allowPendingFlags, pendingFlags,
                   conditionChecksInFlight, currentConditions, armed, afterBlocks,
                   finishedOps>>

BecomesUnavailable(c) ==
    /\ available' = available \ {c}
    /\ UNCHANGED <<coreVars, allowPendingFlags, pendingFlags,
                   conditionChecksInFlight, currentConditions, armed, afterBlocks,
                   finishedOps, signalled, metSince>>

(* haltOperation also stops the delivery of pending flags.                 *)
MachineStep ==
    \/ /\ HaltOperation
       /\ allowPendingFlags' = FALSE
       /\ UNCHANGED <<pendingFlags, conditionChecksInFlight, currentConditions,
                      armed, afterBlocks, finishedOps, available, signalled,
                      metSince>>
    \/ /\ \/ StartOperation \/ RunAttempt \/ FinishAttempt \/ HaltWait
          \/ \E f \in Flag : HandleFlag(f)
       /\ UNCHANGED pendingVars

PendingNext ==
    \/ MachineStep
    \/ \E f \in Flag : \E p \in Handed[f] : HandlePendingFlag(f, p)
    \/ \E op \in AfterOp : AfterOperationBlock(op) \/ OperationFinishes(op)
    \/ SchedulerFires
    \/ \E c \in Condition : \/ CheckOperation(c)
                            \/ BecomesAvailable(c) \/ BecomesUnavailable(c)
    \/ DisablePendingFlags
    \/ \E f \in Flag : DelayEnds(f)

PendingSpec == PendingInit /\ [][PendingNext]_vars

(* The operation queue and the scheduler run what they were given.  No     *)
(* fairness for the world, the clients, or the machine itself.             *)
PendingFairness ==
    /\ WF_vars(SchedulerFires)
    /\ \A op \in AfterOp : WF_vars(AfterOperationBlock(op))
    /\ \A c \in Condition : WF_vars(CheckOperation(c))

PendingFairSpec == PendingSpec /\ PendingFairness
-----------------------------------------------------------------------------
PendingTypeOK ==
    /\ TypeOK
    /\ allowPendingFlags \in BOOLEAN
    /\ pendingFlags \in [Flag -> PendingFlag \cup {NoPending}]
    /\ conditionChecksInFlight \subseteq Condition
    /\ currentConditions \subseteq Condition
    /\ armed \in BOOLEAN
    /\ afterBlocks \subseteq AfterOp
    /\ finishedOps \subseteq AfterOp
    /\ available \subseteq Condition
    /\ signalled \subseteq Condition
    /\ metSince \in [Flag -> SUBSET Condition]

(* No pending flag is stranded: whatever it waits for, a block that will   *)
(* send it is queued behind it.  This is the safety half of "a pending     *)
(* flag is delivered" and what _onqueueSendAnyPendingFlags relies on each  *)
(* time it leaves a flag behind.                                           *)
PendingHasWaker ==
    \A f \in Flag :
        allowPendingFlags /\ IsPending(pendingFlags, f) =>
            \/ pendingFlags[f].timer # "none" /\ armed
            \/ pendingFlags[f].after \in afterBlocks
            \/ pendingFlags[f].conditions \cap conditionChecksInFlight # {}

(* A flag is never sent on the strength of a check older than the flag:    *)
(* each condition it counts as met was available at some moment since the  *)
(* flag was made pending (_onqueueHandlePendingFlag rechecks first).       *)
ConditionsSeenSincePending ==
    \A f \in Flag :
        IsPending(pendingFlags, f) /\ allowPendingFlags =>
            pendingFlags[f].conditions \cap currentConditions \subseteq metSince[f]

(* A waiting check and a condition that counts as met exclude each other,  *)
(* in every interleaving of two trackers with the machine's own rechecks.  *)
CheckInFlightMeansUnmet == conditionChecksInFlight \cap currentConditions = {}

(* A pending flag whose delay and operation are over and whose conditions  *)
(* stay available is delivered (OctagonPendingFlag).                       *)
PendingIsDelivered ==
    \A f \in Flag :
        []<>~( /\ allowPendingFlags
               /\ IsPending(pendingFlags, f)
               /\ pendingFlags[f].timer # "waiting"
               /\ pendingFlags[f].after \in finishedOps \cup {NoOp}
               /\ pendingFlags[f].conditions \subseteq available )

(* OctagonPendingFlag.h, line 10: the machine is asked to add the flag     *)
(* "when some conditions are met", so they are met when it is added.       *)
ConditionsMetAtDelivery ==
    [][\A f \in Flag :
          IsPending(pendingFlags, f) /\ ~IsPending(pendingFlags', f)
            => pendingFlags[f].conditions \subseteq available]_vars
=============================================================================
