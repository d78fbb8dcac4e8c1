SPECIFICATION FairSpec
CONSTANTS
  NotStarted = NotStarted
  Halted = Halted
  NoState = NoState
  NoFlag = NoFlag
  NoRequest = NoRequest
  a = a
  b = b
  c = c
  f = f
  g = g
  r1 = r1
  r2 = r2
  InitialState = a
  State <- MCState
  Flag = {f, g}
  Engine <- MCEngine
  Request = {r1, r2}
  SourceStates <- MCSourceStates
  RequestOutcomes <- MCRequestOutcomes
  TestHoldable <- MCTestHoldable
INVARIANTS TypeOK NoLostWakeup PausedMeansResting RequestHandedOnce HaltStopsEngine
PROPERTIES ServesRPCs HaltIsFinal RPCIsAnswered HaltCompletes
