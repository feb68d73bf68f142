SPECIFICATION Spec
CONSTANT MaxPid = 3
INVARIANTS
  TypeOK
  LeftoversDoNoHarm
PROPERTIES
  FindsDaemon
