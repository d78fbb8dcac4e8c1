SPECIFICATION CodingSpec
CONSTANTS
  NoKey = 0
  SlowRoll = FALSE
  Peer = {1, 2}
  MaxChanges <- MCMaxChanges
  MaxFaults = 1
  TimerGuards = {TRUE}
  Key <- MCKeys
  FirstKeys <- MCFirstKeys
  NextKeys <- MCNextKeys
CHECK_DEADLOCK FALSE
INVARIANT AwaitingIsTimed
