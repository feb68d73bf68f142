SPECIFICATION Spec
CONSTANTS
  Collectors = {coverage, bridges, ports}
  DefaultOn = {coverage, bridges}
  Up = up
INVARIANTS
  TypeOK
  GroupIsWhatWasAsked
  UpSpeaksForRegistered
  CloseLeavesNothing
CHECK_DEADLOCK FALSE
