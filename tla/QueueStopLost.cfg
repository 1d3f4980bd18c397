SPECIFICATION FairSpec
CONSTANTS
  A = A
  B = B
  OfA = {e1}
  OfB = {}
  Threads = {r1, c1}
  Runners = {r1}
  Events <- MCEvents
  NullEvents = {}
  Types <- MCTypes
  TypeOf <- MCTypeOf
  Handlers = {h1}
  MaxQueueSize = 0
  ThreadCalls = {"enqueue", "stop"}
  HandlerCalls = {}
  HandlersThrow = FALSE
  SpuriousWakeups = FALSE
  Unlocked = Unlocked
  NoEvent = NoEvent
  NoHandler = NoHandler
PROPERTY
  StopIsHonoured
