SPECIFICATION WatchersFairSpec
CONSTANTS
  NotStarted = NotStarted
  Halted = Halted
  NoState = NoState
  NoFlag = NoFlag
  NoRequest = NoRequest
  a = a
  b = b
  c = c
  f = f
  r1 = r1
  p1 = p1
  p2 = p2
  q = q
  InitialState = a
  State <- MCState
  Flag = {f}
  Engine <- MCEngine
  Request = {r1}
  SourceStates <- MCSourceStates
  RequestOutcomes <- MCRequestOutcomes
  TestHoldable = {}
  PathWatcher = {p1, p2}
  Paths <- MCPaths
  RequestOf <- MCRequestOf
  ArrivalWatcher = {q}
  States <- MCStates
  FailStates <- MCFailStates
INVARIANTS WatchersTypeOK ResultQueuedOnce WatcherInStep NoMissedArrival
PROPERTIES TimedOutRequestIsAnswered
