SPECIFICATION Spec
CONSTANT MaxPid = 3
PROPERTIES
  Reconnects
