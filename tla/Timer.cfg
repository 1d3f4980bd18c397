SPECIFICATION FairSpec
CONSTANTS
  Clients = {c1, c2}
  TimerThread = timer
  Callbacks = {f}
  NoCallback = NoCallback
  Delays = {0, 3}
  Intervals = {0, 1, 2}
  Reliabilities = {0, 5}
  MaxReliability = 2
  Day = 4
  ClientCalls = {"start", "setReliability", "setCallback", "stop"}
  CallbackCalls = {"start", "setReliability", "setCallback", "stop"}
  SpuriousWakeups = TRUE
INVARIANTS
  TypeOK
  SingleShotOnce
  NoOversleep
  ShutdownIsPrompt
PROPERTIES
  NeverEarly
  ShutdownChoosesNothing
  StartedTimerExpires
  DestructorReturns
