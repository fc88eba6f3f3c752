SPECIFICATION MFairSpec
CONSTANTS
  Conns = {c1, c2}
  NoConn = NoConn
  Tools = {}
  MaxChanges = 0
  ListErrors = TRUE
INVARIANTS SlotOwnership OneBrowserAtATime HandoverOnce
PROPERTIES SlotFreed AdmittedIsServed ImplementsSlot
           DeadSessionDropped NextBrowserServed RunReturns ImplementsSessions
\* Every browser has come and gone and the bridge has stopped.
CHECK_DEADLOCK FALSE
