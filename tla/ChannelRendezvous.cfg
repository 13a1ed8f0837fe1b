SPECIFICATION Spec
CONSTANTS
  Senders = {s1}
  Receivers = {r1}
  Capacities = {0}
  Items = 2
  Width = 8
PROPERTY SendMeetsReceiver
