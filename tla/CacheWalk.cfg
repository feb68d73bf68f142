SPECIFICATION Spec
CONSTANTS
  Bridges = {b1, b2}
  Ports = {p1, p2}
  Interfaces = {i1, i2}
  MaxChanges = 4
SYMMETRY RowSymmetry
INVARIANTS
  TypeOK
  EachInterfaceOnce
  StableInterfacesObserved
