SPECIFICATION Spec
CONSTANTS
  Senders = {s1, s2}
  Receivers = {r1, r2}
  Capacities = {0, 1}
  Items = 2
  Width = 8
INVARIANTS SelectorTypeOK NoIdle
PROPERTIES Drained SelectReturns
