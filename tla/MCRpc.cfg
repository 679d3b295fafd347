SPECIFICATION RpcFairSpec
CONSTANTS
  Callers = {c1, c2}
  Ids = {1, 2}
  MaxCalls = 2
  MaxAnswers = 2
INVARIANTS PendingsExact OwnAnswer
PROPERTY CallReturns
CHECK_DEADLOCK FALSE
