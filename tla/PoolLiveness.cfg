SPECIFICATION FairSpec
CONSTANTS
  Threads = 0
  HardwareConcurrency = 2
  Clients = {c1, c2}
  Jobs = {j1, j2}
  NullJobs = {}
  ClientCalls = {"enqueue", "enqueueMany", "wait"}
  JobCalls = {}
  SpuriousWakeups = FALSE
  MaxTotalJobs = 2
  NoJob = NoJob
PROPERTIES
  QueuedJobIsTaken
  WaitReturns
  DestructorReturns
