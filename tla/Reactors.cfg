SPECIFICATION Spec
CONSTANTS
  StopFirst = 3
  StopLast = 5
  Rounds = 11
  MaxConns = 3
  MaxFds = 2
  EventListSize = 1
INVARIANTS TypeOK Handled Dispatches LeftBehind
PROPERTIES Ends Served
CHECK_DEADLOCK FALSE
