SPECIFICATION FairSpec
CONSTANTS
  Owner = main
  Runner = runner
  Producers = {p}
  Plain = plain
  NullFunction = null
  StopFunction = stop
  PlainEvents = {e1, e2}
  NullEvents = {e3}
  StopEvents = {e4}
  Events <- MCEvents
  FunctionOf <- MCFunctionOf
  MaxQueueSize = 2
  SpuriousWakeups = TRUE
  Unlocked = Unlocked
  NoEvent = NoEvent
PROPERTIES
  ImplementsJobPool
  ScheduledStopReturns
  FullQueueDrains
  OwnerDestroys
  FunctionIsCalled
  LoopStops
