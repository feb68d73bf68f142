SPECIFICATION Spec
CONSTANTS
  Methods <- TwoMethods
  TTL = 0
  DefaultTTL = 2
  CallBound = 1
  None = None
PROPERTIES
  Recovers
