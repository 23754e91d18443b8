SPECIFICATION Spec
CONSTANTS
  epever = epever
  voltgo = voltgo
  Callers = {epever, voltgo}
  Count <- TwoAndOne
INVARIANTS TypeOK OnlyTimedOutOvertaken FailuresIsolated
PROPERTIES PublishReturns
CHECK_DEADLOCK FALSE
