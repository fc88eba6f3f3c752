SPECIFICATION ASpec
CONSTANTS
  Procs = {p1, p2, p3}
  NoProc = NoProc
  NoState = NoState
  NoFile = NoFile
  Ports = {"configured", "ephemeral"}
  DiskFails = FALSE
  Strict = {}
  MaxBrowsers = 1
SYMMETRY Symmetry
INVARIANT OwnerNamed
CHECK_DEADLOCK FALSE
