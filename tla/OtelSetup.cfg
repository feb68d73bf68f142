SPECIFICATION Spec
CONSTANTS
  Kinds = {"none", "otlp", "console"}
  MaxList = 2
  Unset = Unset
  Paths = {"/metrics", "/", "/healthz"}
INVARIANTS
  TypeOK
  ReadersAsSelected
  EnvironmentAsFound
  ShutdownReachesAll
CHECK_DEADLOCK FALSE
