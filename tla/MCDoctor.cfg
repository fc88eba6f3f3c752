SPECIFICATION MCSpec
CONSTANTS
  Procs = {p1, p2}
  NoProc = NoProc
  NoState = NoState
  NoFile = NoFile
  Ports = {"configured", "ephemeral"}
  DiskFails = TRUE
  Strict = {p2}
  MaxBrowsers = 2
INVARIANTS SteadyIsHealthy TokensAgree OwnerRecorded ClosedLeavesNothing PortRecorded FixedPortHasLock
PROPERTIES WrittenByHolder HealthyIsOwner
\* Every process has returned or died.
CHECK_DEADLOCK FALSE
