SPECIFICATION Spec
CONSTANTS
  Datapaths = {d1, d2}
  Bridges = {b1, b2}
  Ports = {p1, p2}
  Counters = {"hit", "missed"}
  Handlers = {"handler 0"}
  Assignments <- SomeAssignments
  Words = {w1, w2}
  Garbled = Garbled
  MaxLines = 5
INVARIANTS
  TypeOK
  TopologyAsPrinted
  StatsAsPrinted
  NamesAsPrinted
CHECK_DEADLOCK FALSE
