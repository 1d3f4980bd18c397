SPECIFICATION FairSpec
CHECK_DEADLOCK FALSE
CONSTANTS
  Threads = 1
  HardwareConcurrency = 1
  Clients = {c1, c2}
  Jobs = {j1, j2}
  NullJobs = {}
  ClientCalls = {"enqueue", "dequeueAll", "wait"}
  JobCalls = {}
  SpuriousWakeups = FALSE
  MaxTotalJobs = 4
  NoJob = NoJob
PROPERTY
  WaitReturnsWhenResumed
