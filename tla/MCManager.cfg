SPECIFICATION MSpec
CONSTANTS
  Conns = {c1, c2}
  NoConn = NoConn
  Tools = {t1}
  MaxChanges = 1
  ListErrors = TRUE
SYMMETRY Symmetry
INVARIANTS SessionIsHeld NoLostWakeup
CHECK_DEADLOCK FALSE
