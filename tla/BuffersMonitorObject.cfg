SPECIFICATION Spec
CONSTANTS
  Producers = {p1, p2}
  Consumers = {c1, c2}
  Nobody = Nobody
  Items = 2
  Size = 2
INVARIANT GetFindsElement
CHECK_DEADLOCK FALSE
