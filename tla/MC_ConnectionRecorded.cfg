SPECIFICATION ASpec
CONSTANTS
  Procs = {p1}
  NoProc = NoProc
  NoState = NoState
  NoFile = NoFile
  Ports = {"configured", "ephemeral"}
  DiskFails = FALSE
  Strict = {}
  MaxBrowsers = 1
INVARIANT ConnectionRecorded
CHECK_DEADLOCK FALSE
