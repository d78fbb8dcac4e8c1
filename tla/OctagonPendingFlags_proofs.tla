--------------------- MODULE OctagonPendingFlags_proofs ----------------------
(***************************************************************************)
(* No pending flag is stranded, for every set of flags, conditions and     *)
(* operations.  The argument: each condition a pending flag needs is       *)
(* either counted as met or has a check in flight (Tracked), each          *)
(* unfinished operation one waits for has a block behind it (Blocked), and *)
(* a send leaves a flag behind only for one of these reasons or because    *)
(* of its delay, for which it arms the scheduler.                          *)
(***************************************************************************)
EXTENDS OctagonPendingFlags, OctagonStateMachine_proofs

PendingTypes ==
    /\ allowPendingFlags \in BOOLEAN
    /\ pendingFlags \in [Flag -> PendingFlag \cup {NoPending}]
    /\ conditionChecksInFlight \subseteq Condition
    /\ currentConditions \subseteq Condition
    /\ armed \in BOOLEAN
    /\ afterBlocks \subseteq AfterOp
    /\ finishedOps \subseteq AfterOp
    /\ available \subseteq Condition
    /\ signalled \subseteq Condition
    /\ metSince \in [Flag -> SUBSET Condition]

Tracked ==
    \A f \in Flag : allowPendingFlags /\ IsPending(pendingFlags, f) =>
        pendingFlags[f].conditions \subseteq currentConditions \cup conditionChecksInFlight

Blocked ==
    \A f \in Flag : IsPending(pendingFlags, f) =>
        pendingFlags[f].after \in afterBlocks \cup finishedOps \cup {NoOp}

(* The history records at least what is available now.                     *)
AvailableSince ==
    \A f \in Flag : IsPending(pendingFlags, f) => available \subseteq metSince[f]

PendingInv ==
    /\ PendingTypes
    /\ CheckInFlightMeansUnmet
    /\ Tracked
    /\ Blocked
    /\ AvailableSince
    /\ PendingHasWaker
    /\ ConditionsSeenSincePending

USE PendingAssumption, NoPendingAssumption, HandedAssumption
    DEF PendingAssumption, NoPendingAssumption, HandedAssumption

LEMMA PendingFlagFields ==
    ASSUME NEW p \in PendingFlag
    PROVE  /\ p.timer \in {"none", "waiting", "elapsed"}
           /\ p.after \in AfterOp \cup {NoOp}
           /\ p.conditions \subseteq Condition
           /\ p # NoPending
BY DEF PendingFlag

(* What a send leaves behind, and why.                                     *)
LEMMA SendPost ==
    ASSUME NEW pf \in [Flag -> PendingFlag \cup {NoPending}], NEW live \in BOOLEAN,
           NEW since \in [Flag -> SUBSET Condition],
           SendAnyPendingFlags(pf, live, since)
    PROVE  /\ pendingFlags' \in [Flag -> PendingFlag \cup {NoPending}]
           /\ armed' \in BOOLEAN
           /\ metSince' \in [Flag -> SUBSET Condition]
           /\ \A f \in Flag : IsPending(pendingFlags', f) =>
                 /\ IsPending(pf, f) /\ pendingFlags'[f] = pf[f]
                 /\ metSince'[f] = since[f]
                 /\ allowPendingFlags =>
                      \/ pf[f].timer = "waiting" /\ armed'
                      \/ pf[f].after \notin finishedOps \cup {NoOp}
                      \/ ~(pf[f].conditions \subseteq currentConditions')
<1>1. CASE ~allowPendingFlags
  BY <1>1 DEF SendAnyPendingFlags
<1>2. CASE allowPendingFlags
  <2> DEFINE sent == Ready(pf, currentConditions')
  <2>1. /\ pendingFlags' = [f \in Flag |-> IF f \in sent THEN NoPending ELSE pf[f]]
        /\ armed' = (live \/ Waiting(pf) # {})
        /\ metSince' = [f \in Flag |-> IF f \in sent THEN {} ELSE since[f]]
    BY <1>2 DEF SendAnyPendingFlags
  <2>2. ASSUME NEW f \in Flag, IsPending(pendingFlags', f)
        PROVE  f \notin sent /\ pendingFlags'[f] = pf[f] /\ metSince'[f] = since[f]
    BY <2>1, <2>2 DEF IsPending
  <2>3. ASSUME NEW f \in Flag, IsPending(pf, f), f \notin sent
        PROVE  \/ pf[f].timer = "waiting" /\ armed'
               \/ pf[f].after \notin finishedOps \cup {NoOp}
               \/ ~(pf[f].conditions \subseteq currentConditions')
    BY <2>1, <2>3 DEF Ready, Waiting
  <2>4. /\ pendingFlags' \in [Flag -> PendingFlag \cup {NoPending}]
        /\ metSince' \in [Flag -> SUBSET Condition]
        /\ armed' \in BOOLEAN
    BY <2>1
  <2> QED
    BY <2>2, <2>3, <2>4 DEF IsPending
<1> QED
  BY <1>1, <1>2

(* What a recheck establishes for the flags it looked at.                  *)
LEMMA RecheckPost ==
    ASSUME NEW pf \in [Flag -> PendingFlag \cup {NoPending}],
           NEW inFlight \in SUBSET Condition,
           currentConditions \subseteq Condition, available \subseteq Condition,
           inFlight \cap currentConditions = {},
           RecheckConditions(pf, inFlight)
    PROVE  /\ currentConditions' \subseteq Condition
           /\ conditionChecksInFlight' \subseteq Condition
           /\ conditionChecksInFlight' \cap currentConditions' = {}
           /\ currentConditions' \subseteq currentConditions \cup available
           /\ allowPendingFlags => \A f \in Flag : IsPending(pf, f) =>
                /\ pf[f].conditions \subseteq currentConditions' \cup conditionChecksInFlight'
                /\ pf[f].conditions \cap currentConditions' \subseteq available
<1> DEFINE needed == UNION {pf[f].conditions : f \in {g \in Flag : IsPending(pf, g)}}
           toCheck == IF allowPendingFlags THEN needed \ inFlight ELSE {}
<1>1. /\ currentConditions' = (currentConditions \ toCheck) \cup (toCheck \cap available)
      /\ conditionChecksInFlight' = inFlight \cup (toCheck \ available)
  BY DEF RecheckConditions
<1>2. ASSUME NEW f \in Flag, IsPending(pf, f)
      PROVE  pf[f].conditions \subseteq needed /\ pf[f].conditions \subseteq Condition
  BY <1>2, PendingFlagFields DEF IsPending
<1>3. needed \subseteq Condition
  BY PendingFlagFields DEF IsPending
<1> HIDE DEF needed
<1> QED
  BY <1>1, <1>2, <1>3

LEMMA PendingInitInv == PendingInit => PendingInv
BY DEF PendingInit, PendingInv, PendingTypes, CheckInFlightMeansUnmet, Tracked, Blocked,
       AvailableSince, PendingHasWaker, ConditionsSeenSincePending, IsPending

LEMMA PendingNextInv == PendingInv /\ [PendingNext]_vars => PendingInv'
<1> SUFFICES ASSUME PendingInv, [PendingNext]_vars PROVE PendingInv'
  OBVIOUS
<1> USE DEF PendingInv
<1>1. CASE MachineStep \/ UNCHANGED vars
  <2>1. /\ UNCHANGED <<pendingFlags, conditionChecksInFlight, currentConditions, armed,
                       afterBlocks, finishedOps, available, signalled, metSince>>
        /\ allowPendingFlags' = FALSE \/ allowPendingFlags' = allowPendingFlags
    BY <1>1 DEF MachineStep, vars, pendingVars
  <2>2. PendingTypes' /\ CheckInFlightMeansUnmet' /\ Blocked' /\ AvailableSince'
    BY <2>1 DEF PendingTypes, CheckInFlightMeansUnmet, Blocked, AvailableSince, IsPending
  <2>3. Tracked' /\ PendingHasWaker' /\ ConditionsSeenSincePending'
    BY <2>1 DEF Tracked, PendingHasWaker, ConditionsSeenSincePending, IsPending
  <2> QED
    BY <2>2, <2>3
<1>2. ASSUME NEW f \in Flag, NEW p \in Handed[f], HandlePendingFlag(f, p)
      PROVE  PendingInv'
  <2> DEFINE pf == [pendingFlags EXCEPT ![f] = p]
             since == [metSince EXCEPT ![f] = available]
  <2>1. p \in PendingFlag /\ pf \in [Flag -> PendingFlag \cup {NoPending}]
    BY DEF PendingTypes
  <2>2. since \in [Flag -> SUBSET Condition]
    BY DEF PendingTypes
  <2>3. /\ RecheckConditions(pf, conditionChecksInFlight)
        /\ SendAnyPendingFlags(pf, armed, since)
        /\ afterBlocks' = afterBlocks \cup ({p.after} \ {NoOp})
        /\ UNCHANGED <<allowPendingFlags, finishedOps, available, signalled>>
    BY <1>2 DEF HandlePendingFlag
  <2>4. \A g \in Flag : IsPending(pf, g) =>
           /\ available \subseteq since[g]
           /\ pf[g].after \in afterBlocks' \cup finishedOps \cup {NoOp}
    BY <2>1, <2>3, PendingFlagFields
    DEF PendingTypes, AvailableSince, Blocked, IsPending
  <2> HIDE DEF pf, since
  <2>5. /\ currentConditions' \subseteq Condition
        /\ conditionChecksInFlight' \subseteq Condition
        /\ conditionChecksInFlight' \cap currentConditions' = {}
        /\ allowPendingFlags => \A g \in Flag : IsPending(pf, g) =>
             /\ pf[g].conditions \subseteq currentConditions' \cup conditionChecksInFlight'
             /\ pf[g].conditions \cap currentConditions' \subseteq available
    BY <2>1, <2>3, RecheckPost DEF PendingTypes, CheckInFlightMeansUnmet
  <2>6. /\ pendingFlags' \in [Flag -> PendingFlag \cup {NoPending}]
        /\ armed' \in BOOLEAN
        /\ metSince' \in [Flag -> SUBSET Condition]
        /\ \A g \in Flag : IsPending(pendingFlags', g) =>
              /\ IsPending(pf, g) /\ pendingFlags'[g] = pf[g]
              /\ metSince'[g] = since[g]
              /\ allowPendingFlags =>
                   \/ pf[g].timer = "waiting" /\ armed'
                   \/ pf[g].after \notin finishedOps \cup {NoOp}
                   \/ ~(pf[g].conditions \subseteq currentConditions')
    BY <2>1, <2>2, <2>3, SendPost DEF PendingTypes
  <2>7. PendingTypes'
    BY <2>1, <2>3, <2>5, <2>6, PendingFlagFields DEF PendingTypes
  <2>8. Tracked' /\ Blocked' /\ AvailableSince'
    BY <2>3, <2>4, <2>5, <2>6 DEF Tracked, Blocked, AvailableSince, IsPending
  <2>9. PendingHasWaker'
    BY <2>3, <2>4, <2>5, <2>6 DEF PendingHasWaker, IsPending
  <2>10. ConditionsSeenSincePending'
    BY <2>3, <2>4, <2>5, <2>6 DEF ConditionsSeenSincePending, IsPending
  <2> QED
    BY <2>5, <2>7, <2>8, <2>9, <2>10 DEF CheckInFlightMeansUnmet
<1>3. ASSUME NEW live \in BOOLEAN, SendAnyPendingFlags(pendingFlags, live, metSince),
             afterBlocks' \subseteq afterBlocks,
             afterBlocks \subseteq afterBlocks' \cup finishedOps,
             signalled' = signalled,
             UNCHANGED <<allowPendingFlags, conditionChecksInFlight,
                         currentConditions, finishedOps, available>>
      PROVE  PendingInv'
  <2>1. /\ pendingFlags' \in [Flag -> PendingFlag \cup {NoPending}]
        /\ armed' \in BOOLEAN
        /\ metSince' \in [Flag -> SUBSET Condition]
        /\ \A g \in Flag : IsPending(pendingFlags', g) =>
              /\ IsPending(pendingFlags, g) /\ pendingFlags'[g] = pendingFlags[g]
              /\ metSince'[g] = metSince[g]
              /\ allowPendingFlags =>
                   \/ pendingFlags[g].timer = "waiting" /\ armed'
                   \/ pendingFlags[g].after \notin finishedOps \cup {NoOp}
                   \/ ~(pendingFlags[g].conditions \subseteq currentConditions')
    BY <1>3, SendPost DEF PendingTypes
  <2>2. PendingTypes'
    BY <1>3, <2>1 DEF PendingTypes
  <2>3. CheckInFlightMeansUnmet' /\ Tracked' /\ Blocked' /\ AvailableSince'
    BY <1>3, <2>1 DEF CheckInFlightMeansUnmet, Tracked, Blocked, AvailableSince, IsPending
  <2>4. PendingHasWaker'
    BY <1>3, <2>1 DEF PendingHasWaker, Tracked, Blocked, IsPending
  <2>5. ConditionsSeenSincePending'
    BY <1>3, <2>1 DEF ConditionsSeenSincePending, IsPending
  <2> QED
    BY <2>2, <2>3, <2>4, <2>5
<1>4. ASSUME NEW op \in AfterOp, AfterOperationBlock(op) PROVE PendingInv'
  BY <1>3, <1>4 DEF AfterOperationBlock, PendingTypes
<1>5. CASE SchedulerFires
  BY <1>3, <1>5 DEF SchedulerFires
<1>6. ASSUME NEW c \in Condition, CheckOperation(c) PROVE PendingInv'
  <2>1. /\ RecheckConditions(pendingFlags, conditionChecksInFlight \ {c})
        /\ SendAnyPendingFlags(pendingFlags, armed, metSince)
        /\ UNCHANGED <<allowPendingFlags, afterBlocks, finishedOps, available>>
        /\ signalled' = signalled \ {c}
    BY <1>6 DEF CheckOperation
  <2>2. /\ currentConditions' \subseteq Condition
        /\ conditionChecksInFlight' \subseteq Condition
        /\ conditionChecksInFlight' \cap currentConditions' = {}
        /\ allowPendingFlags => \A g \in Flag : IsPending(pendingFlags, g) =>
             /\ pendingFlags[g].conditions
                  \subseteq currentConditions' \cup conditionChecksInFlight'
             /\ pendingFlags[g].conditions \cap currentConditions' \subseteq available
    BY <2>1, RecheckPost DEF PendingTypes, CheckInFlightMeansUnmet
  <2>3. /\ pendingFlags' \in [Flag -> PendingFlag \cup {NoPending}]
        /\ armed' \in BOOLEAN
        /\ metSince' \in [Flag -> SUBSET Condition]
        /\ \A g \in Flag : IsPending(pendingFlags', g) =>
              /\ IsPending(pendingFlags, g) /\ pendingFlags'[g] = pendingFlags[g]
              /\ metSince'[g] = metSince[g]
              /\ allowPendingFlags =>
                   \/ pendingFlags[g].timer = "waiting" /\ armed'
                   \/ pendingFlags[g].after \notin finishedOps \cup {NoOp}
                   \/ ~(pendingFlags[g].conditions \subseteq currentConditions')
    BY <2>1, SendPost DEF PendingTypes
  <2>4. PendingTypes'
    BY <2>1, <2>2, <2>3 DEF PendingTypes
  <2>5. Tracked' /\ Blocked' /\ AvailableSince'
    BY <2>1, <2>2, <2>3 DEF Tracked, Blocked, AvailableSince, IsPending
  <2>6. PendingHasWaker'
    BY <2>1, <2>2, <2>3 DEF PendingHasWaker, Blocked, IsPending
  <2>7. ConditionsSeenSincePending'
    BY <2>1, <2>2, <2>3 DEF ConditionsSeenSincePending, AvailableSince, IsPending
  <2> QED
    BY <2>2, <2>4, <2>5, <2>6, <2>7 DEF CheckInFlightMeansUnmet
<1>7. CASE DisablePendingFlags
  BY <1>7 DEF DisablePendingFlags, PendingTypes, CheckInFlightMeansUnmet, Tracked, Blocked,
              AvailableSince, PendingHasWaker, ConditionsSeenSincePending, IsPending
<1>8. ASSUME NEW f \in Flag, DelayEnds(f) PROVE PendingInv'
  <2> DEFINE p == [pendingFlags[f] EXCEPT !.timer = "elapsed"]
  <2>1. pendingFlags[f] \in PendingFlag /\ pendingFlags[f].timer = "waiting"
    BY <1>8 DEF DelayEnds, Waiting, IsPending, PendingTypes
  <2>2. /\ p \in PendingFlag /\ p.timer = "elapsed"
        /\ p.after = pendingFlags[f].after /\ p.conditions = pendingFlags[f].conditions
    BY <2>1 DEF PendingFlag
  <2>3. /\ pendingFlags' = [pendingFlags EXCEPT ![f] = p]
        /\ UNCHANGED <<allowPendingFlags, conditionChecksInFlight, currentConditions,
                       armed, afterBlocks, finishedOps, available, signalled, metSince>>
    BY <1>8 DEF DelayEnds
  <2> HIDE DEF p
  <2>4. /\ pendingFlags' \in [Flag -> PendingFlag \cup {NoPending}]
        /\ \A g \in Flag : IsPending(pendingFlags', g) =>
             /\ IsPending(pendingFlags, g)
             /\ pendingFlags'[g].after = pendingFlags[g].after
             /\ pendingFlags'[g].conditions = pendingFlags[g].conditions
             /\ pendingFlags[g].timer # "none" => pendingFlags'[g].timer # "none"
    BY <2>1, <2>2, <2>3, PendingFlagFields DEF PendingTypes, IsPending
  <2> QED
    BY <2>3, <2>4
    DEF PendingTypes, CheckInFlightMeansUnmet, Tracked, Blocked, AvailableSince,
        PendingHasWaker, ConditionsSeenSincePending, IsPending
<1>9. ASSUME NEW op \in AfterOp, OperationFinishes(op) PROVE PendingInv'
  BY <1>9 DEF OperationFinishes, PendingTypes, CheckInFlightMeansUnmet, Tracked, Blocked,
              AvailableSince, PendingHasWaker, ConditionsSeenSincePending, IsPending
<1>10. ASSUME NEW c \in Condition, BecomesAvailable(c) PROVE PendingInv'
  BY <1>10 DEF BecomesAvailable, PendingTypes, CheckInFlightMeansUnmet, Tracked, Blocked,
               AvailableSince, PendingHasWaker, ConditionsSeenSincePending, IsPending
<1>11. ASSUME NEW c \in Condition, BecomesUnavailable(c) PROVE PendingInv'
  BY <1>11 DEF BecomesUnavailable, PendingTypes, CheckInFlightMeansUnmet, Tracked, Blocked,
               AvailableSince, PendingHasWaker, ConditionsSeenSincePending, IsPending
<1> QED
  BY <1>1, <1>2, <1>4, <1>5, <1>6, <1>7, <1>8, <1>9, <1>10, <1>11 DEF PendingNext

LEMMA PendingInvIsInvariant == PendingSpec => []PendingInv
BY PendingInitInv, PendingNextInv, PTL DEF PendingSpec

(* A send may set several flags in one poke.  The machine's own invariant  *)
(* survives it, as it does any poke.                                       *)
LEMMA SendKeepsMachine ==
    ASSUME Inv, NEW pf, NEW live, NEW since,
           SendAnyPendingFlags(pf, live, since), UNCHANGED queueVars
    PROVE  Inv'
<1>1. CASE UNCHANGED <<flags, cycleVars>>
  <2>1. UNCHANGED coreVars
    BY <1>1 DEF queueVars, cycleVars, coreVars
  <2> QED
    BY <2>1, NextInv
<1>2. ASSUME NEW fl \in SUBSET Flag, Poke(fl) PROVE Inv'
  BY <1>2, PokePost
  DEF Inv, queueVars, TypeOK, QueueShape, HaltShape, HaltStopsEngine
<1>3. Ready(pf, currentConditions') \subseteq Flag /\ flags \subseteq Flag
  BY DEF Ready, Inv, TypeOK
<1> QED
  BY <1>1, <1>2, <1>3 DEF SendAnyPendingFlags

LEMMA PendingNextKeepsMachine == Inv /\ [PendingNext]_vars => Inv'
<1> SUFFICES ASSUME Inv, [PendingNext]_vars PROVE Inv'
  OBVIOUS
<1>1. ASSUME [Next]_coreVars PROVE Inv'
  BY <1>1, NextInv
<1>2. CASE MachineStep \/ UNCHANGED vars
  BY <1>1, <1>2 DEF MachineStep, Next, vars
<1>3. ASSUME NEW f \in Flag, NEW p \in Handed[f], HandlePendingFlag(f, p)
      PROVE  Inv'
  BY <1>3, SendKeepsMachine DEF HandlePendingFlag
<1>4. ASSUME NEW op \in AfterOp, AfterOperationBlock(op) PROVE Inv'
  BY <1>4, SendKeepsMachine DEF AfterOperationBlock
<1>5. CASE SchedulerFires
  BY <1>5, SendKeepsMachine DEF SchedulerFires
<1>6. ASSUME NEW c \in Condition, CheckOperation(c) PROVE Inv'
  BY <1>6, SendKeepsMachine DEF CheckOperation
<1>7. CASE DisablePendingFlags
  BY <1>1, <1>7 DEF DisablePendingFlags
<1>8. ASSUME NEW f \in Flag, DelayEnds(f) PROVE Inv'
  BY <1>1, <1>8 DEF DelayEnds
<1>9. ASSUME NEW op \in AfterOp, OperationFinishes(op) PROVE Inv'
  BY <1>1, <1>9 DEF OperationFinishes
<1>10. ASSUME NEW c \in Condition, BecomesAvailable(c) \/ BecomesUnavailable(c)
       PROVE  Inv'
  BY <1>1, <1>10 DEF BecomesAvailable, BecomesUnavailable
<1> QED
  BY <1>2, <1>3, <1>4, <1>5, <1>6, <1>7, <1>8, <1>9, <1>10 DEF PendingNext

LEMMA MachineInvIsInvariant == PendingSpec => []Inv
<1>1. PendingInit => Inv
  BY InitInv DEF PendingInit
<1> QED
  BY <1>1, PendingNextKeepsMachine, PTL DEF PendingSpec

(* Every variable keeps its type, the machine's included: a delivery pokes *)
(* the machine with a set of flags, which is none of its own steps.        *)
THEOREM PendingTypeCorrect == PendingSpec => []PendingTypeOK
<1>1. Inv /\ PendingInv => PendingTypeOK
  BY DEF Inv, PendingInv, PendingTypes, PendingTypeOK
<1> QED
  BY <1>1, MachineInvIsInvariant, PendingInvIsInvariant, PTL

(* A pending flag always has a block, a check or a scheduler request       *)
(* behind it that will look at it again.                                   *)
THEOREM NoPendingFlagIsStranded == PendingSpec => []PendingHasWaker
BY PendingInvIsInvariant, PTL DEF PendingInv

(* A condition counts as met for a flag only if it was available at some   *)
(* moment since the flag was made pending.                                 *)
THEOREM NoCheckOlderThanTheFlag == PendingSpec => []ConditionsSeenSincePending
BY PendingInvIsInvariant, PTL DEF PendingInv

(* No condition is counted as met while a check for it is in flight.       *)
THEOREM ChecksAreForUnmetConditions == PendingSpec => []CheckInFlightMeansUnmet
BY PendingInvIsInvariant, PTL DEF PendingInv
=============================================================================
