SPECIFICATION PendingSpec
CONSTANTS
  NotStarted = NotStarted
  Halted = Halted
  NoState = NoState
  NoFlag = NoFlag
  NoRequest = NoRequest
  NoOp = NoOp
  NoPending = NoPending
  a = a
  f = f
  g = g
  InitialState = a
  State <- MCState
  Flag = {f, g}
  Engine <- MCEngine
  Request = {}
  SourceStates <- MCNone
  RequestOutcomes <- MCNone
  TestHoldable = {}
  unlocked = unlocked
  reachable = reachable
  op = op
  Condition = {unlocked, reachable}
  Handed <- MCHanded
  AfterOp = {op}
PROPERTIES ConditionsMetAtDelivery
