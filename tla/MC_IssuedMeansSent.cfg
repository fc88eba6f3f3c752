SPECIFICATION DSpec
CONSTANTS
  Calls = {d1}
  NoCall = NoCall
  Ids = {i1}
  NoId = NoId
INVARIANT IssuedMeansSent
CHECK_DEADLOCK FALSE
