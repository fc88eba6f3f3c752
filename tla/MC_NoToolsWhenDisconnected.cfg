SPECIFICATION MSpec
CONSTANTS
  Conns = {c1}
  NoConn = NoConn
  Tools = {t1}
  MaxChanges = 0
  ListErrors = FALSE
INVARIANT NoToolsWhenDisconnected
CHECK_DEADLOCK FALSE
