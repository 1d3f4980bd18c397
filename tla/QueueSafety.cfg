SPECIFICATION Spec
CONSTANTS
  A = A
  B = B
  OfA = {e1, e2}
  OfB = {e3}
  Threads = {r1, r2, c1}
  Runners = {r1, r2}
  Events <- MCEvents
  NullEvents = {e3}
  Types <- MCTypes
  TypeOf <- MCTypeOf
  Handlers = {h1}
  MaxQueueSize = 2
  ThreadCalls = {"enqueue", "setCallbackForType", "setCallbacks", "stop"}
  HandlerCalls = {"enqueue", "stop"}
  HandlersThrow = TRUE
  SpuriousWakeups = TRUE
  Unlocked = Unlocked
  NoEvent = NoEvent
  NoHandler = NoHandler
SYMMETRY Symmetry
INVARIANTS
  TypeOK
  QueueBounded
  DeliveryOrder
  NoLostWakeup
