------------------------ MODULE MCOctagonPendingFlags ------------------------
(* A machine that handles two flags in one state, both conditions of the   *)
(* code, and one operation to wait for.  Requests play no part.             *)
EXTENDS OctagonPendingFlags, TLC

CONSTANTS a, f, g, unlocked, reachable, op

MCState == {NotStarted, Halted, a}
MCEngine == { [from |-> a, flag |-> h, outcomes |-> {a}] : h \in {f, g} }
MCHanded ==
    (f :> {[timer |-> "waiting", after |-> NoOp, conditions |-> {unlocked}]})
 @@ (g :> {[timer |-> "none", after |-> op, conditions |-> {unlocked, reachable}]})
MCNone == [r \in {} |-> {}]
=============================================================================
