------------------------ MODULE MCOctagonStateMachine ------------------------
(* A machine with three working states: a ("ready") reacts to two flags,    *)
(* b falls back to a, c waits for a flag; two requests race for state a.    *)
EXTENDS OctagonStateMachine, TLC

CONSTANTS a, b, c, f, g, r1, r2

MCState == {NotStarted, Halted, a, b, c}
MCEngine ==
    { [from |-> a, flag |-> f,      outcomes |-> {b, c}],
      [from |-> a, flag |-> g,      outcomes |-> {a}],
      [from |-> b, flag |-> NoFlag, outcomes |-> {a}],
      [from |-> c, flag |-> g,      outcomes |-> {a}] }
MCSourceStates    == (r1 :> {a, c}) @@ (r2 :> {a})
MCRequestOutcomes == (r1 :> {b, c}) @@ (r2 :> {a, c})
MCTestHoldable    == {b}
=============================================================================
