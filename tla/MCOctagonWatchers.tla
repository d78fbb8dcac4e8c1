-------------------------- MODULE MCOctagonWatchers --------------------------
(* A machine with three working states.  p1 is the watcher of a watched RPC *)
(* whose path forks; p2 follows a two-step path without a request; q waits  *)
(* for a state and fails on another.                                        *)
EXTENDS OctagonWatchers, TLC

CONSTANTS a, b, c, f, r1, p1, p2, q

MCState == {NotStarted, Halted, a, b, c}
MCEngine ==
    { [from |-> a, flag |-> f,      outcomes |-> {b, c}],
      [from |-> b, flag |-> NoFlag, outcomes |-> {a, c}],
      [from |-> c, flag |-> f,      outcomes |-> {a}] }
MCSourceStates    == r1 :> {a}
MCRequestOutcomes == r1 :> {b, c}
MCPaths == (p1 :> {<<b, a>>, <<b, c, a>>}) @@ (p2 :> {<<a, b>>})
MCRequestOf == (p1 :> r1) @@ (p2 :> NoRequest)
MCStates == q :> {b}
MCFailStates == q :> {c}
=============================================================================
