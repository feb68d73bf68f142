SPECIFICATION Spec
CONSTANTS
  Callers = {g1, g2}
  Free = Free
  MaxCalls = 3
INVARIANTS
  TypeOK
  ReplyAnswersItsRequest
  OneInFlight
PROPERTIES
  FailureDropsConnection
  ImplementsCall
  CallReturns
  CloseReturns
