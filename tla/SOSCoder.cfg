SPECIFICATION CodingFairSpec
CONSTANTS
  NoKey = 0
  SlowRoll = FALSE
  Peer = {1, 2}
  MaxChanges <- MCMaxChanges
  MaxFaults = 1
  TimerGuards = {TRUE, FALSE}
  Key <- MCKeys
  FirstKeys <- MCFirstKeys
  NextKeys <- MCNextKeys
CHECK_DEADLOCK FALSE
INVARIANTS CodingTypeOK CacheFits CanTalk OpenedOnce
PROPERTIES ChangeReachesPeer
