SPECIFICATION Spec
CONSTANTS
  Threads = 2
  HardwareConcurrency = 1
  Clients = {c1, c2}
  Jobs = {j1, j2, j3}
  NullJobs = {j3}
  ClientCalls = {"enqueue", "enqueueMany", "clear", "dequeueAll", "wait", "wait_for"}
  JobCalls = {}
  SpuriousWakeups = TRUE
  MaxTotalJobs = 4
  NoJob = NoJob
SYMMETRY Symmetry
PROPERTY
  ImplementsJobPool
INVARIANTS
  TypeOK
  Accounting
  WaitIsSound
  Conservation
  WorkConserving
  NoStrandedWaiter
  ShutdownWakesAll
