SPECIFICATION MSpec
CONSTANTS
  Conns = {c1, c2}
  NoConn = NoConn
  Tools = {t1}
  MaxChanges = 0
  ListErrors = FALSE
INVARIANT ServedIsConnected
CHECK_DEADLOCK FALSE
