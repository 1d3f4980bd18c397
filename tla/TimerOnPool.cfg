SPECIFICATION FairSpecAll
CONSTANTS
  Threads = 1
  HardwareConcurrency = 1
  Clients = {timer}
  Jobs = {j1, j2}
  NullJobs = {}
  ClientCalls = {"enqueue"}
  JobCalls = {}
  SpuriousWakeups = FALSE
  MaxTotalJobs = 2
  NoJob = NoJob
  User = user
  TimerThread = timer
  PoolWrap = poolWrap
  ThreadWrap = threadWrap
  NoCallback = NoCallback
  Delays = {1}
  Intervals = {0, 1}
  Day = 1
  MaxDetached = 1
INVARIANTS
  WrappedCallFindsPool
  OneJobAfterStop
PROPERTIES
  ExpiresBesideLongJobs
  TimerDestructorReturns
