SPECIFICATION FairSpec
CONSTANTS
  epever = epever
  voltgo = voltgo
  Order <- BothControllers
  Collections <- VoltgoRuns
  Requests = {patch}
  Operations = 1
  MaxTicks = 1
  MaxConnects = 2
INVARIANTS TypeOK NoLinkLeftBehind BrokenLinksDropped ClosedMeansQuiet OnlyFirstRunReconnects EverythingClosed
PROPERTIES SignalEndsProcess
CHECK_DEADLOCK FALSE
