SPECIFICATION ReadinessSpec
CONSTANTS
  Methods <- ThreeMethods
  TTL = 3
  DefaultTTL = 2
  CallBound = 1
  None = None
INVARIANTS
  ReadinessTypeOK
  ReadyServesSnapshot
  ServedHasSources
  NeverStaleWhileRunning
PROPERTIES
  ImplementsPublication
  ReadyzRecovers
  RunReturns
