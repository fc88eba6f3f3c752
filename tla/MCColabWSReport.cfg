SPECIFICATION Spec
CONSTANTS
  Conns = {c1, c2}
  NoConn = NoConn
SYMMETRY Symmetry
INVARIANT ReportedIsLive
CHECK_DEADLOCK FALSE
