SPECIFICATION Spec
CONSTANTS
  Producers = {p1, p2}
  Consumers = {c1, c2}
  Nobody = Nobody
  Items = 2
  Size = 2
INVARIANT TypeOK
PROPERTIES Implements Delivered StopReaches
CHECK_DEADLOCK FALSE
