SPECIFICATION MSpec
CONSTANTS
  Conns = {c1}
  NoConn = NoConn
  Tools = {t1}
  MaxChanges = 2
  ListErrors = FALSE
INVARIANT RegistryFresh
CHECK_DEADLOCK FALSE
