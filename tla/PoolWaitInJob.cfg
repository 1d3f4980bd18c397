SPECIFICATION FairSpec
CHECK_DEADLOCK FALSE
CONSTANTS
  Threads = 1
  HardwareConcurrency = 1
  Clients = {c1}
  Jobs = {j1, j2}
  NullJobs = {}
  ClientCalls = {"enqueue"}
  JobCalls = {"wait"}
  SpuriousWakeups = FALSE
  MaxTotalJobs = 2
  NoJob = NoJob
PROPERTY
  DestructorReturns
