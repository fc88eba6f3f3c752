----------------------------- MODULE Processes -----------------------------
(* The bridge processes that share one token directory, and its disk.      *)

CONSTANTS
  Procs,     \* bridge processes (a restart is another one)
  NoProc,    \* no process
  DiskFails  \* whether writing, closing or removing a file can fail

ASSUME ProcsAssumption == NoProc \notin Procs
ASSUME DiskFailsAssumption == DiskFails \in BOOLEAN
=============================================================================
