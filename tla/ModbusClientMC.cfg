\* Two callers that write one register, write both or read both.
SPECIFICATION FairSpec
CONSTANTS
  float = float
  boost = boost
  Callers = {c1, c2}
  Registers = {float, boost}
  Values = {0, 1}
  Operations <- SingleBlockRead
  RetryAttempts = 2
INVARIANTS TypeOK
PROPERTIES ImplementsBus EveryCallReturns
