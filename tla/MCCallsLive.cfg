SPECIFICATION MCSpec
CONSTANTS
  Writes = {w1, w2}
  ReadCap = 1
  MaxIncoming = 3
  Conns = {c1, c2}
  NoConn = NoConn
  Opens = {o1, o2}
  Calls = {d1}
  NoCall = NoCall
  Ids = {i1}
  NoId = NoId
INVARIANTS DeliveredInOrder OpenSawSession
PROPERTIES HangUpNoticed NoWriteForgotten NobodyHangs AllWaitersReturn CallEnds
CHECK_DEADLOCK FALSE
