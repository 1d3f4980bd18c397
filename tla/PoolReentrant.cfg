SPECIFICATION FairSpecWithTokens
CONSTANTS
  Threads = 0
  HardwareConcurrency = 0
  Clients = {c1}
  Jobs = {j1, j2, j3}
  NullJobs = {}
  ClientCalls = {"enqueue", "wait_for"}
  JobCalls = {"enqueue", "enqueueMany", "clear", "wait_for"}
  SpuriousWakeups = FALSE
  MaxTotalJobs = 3
  NoJob = NoJob
  Sources = {s1}
  NoSource = NoSource
  PollingJobs = {j1, j2}
INVARIANT
  WaitIsSound
PROPERTY
  DestructorReturnsOnceCancelled
  QueuedJobTakenOnceCancelled
