SPECIFICATION Spec
CONSTANTS
  Senders = {s1}
  Receivers = {r1}
  Capacities = {1}
  Items = 1
  Width = 8
PROPERTY StopUnblocks
