SPECIFICATION Spec
CONSTANTS
  Pushers = {p1}
  Poppers = {c1, c2}
  Null = Null
  Calls = 3
  Nodes = {n1, n2, n3}
  MaxHazardPointers = 2
INVARIANTS TypeOK NoLeak
PROPERTIES NeverInUse Implements
SYMMETRY Symmetry
