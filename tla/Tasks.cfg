SPECIFICATION Spec
CONSTANTS
  Clients = {buy, sell}
  Buyer = buy
  Main = main
  Events = 2
  Requests = 2
  Numbers = {2, 4, 9}
  Crew = 3
INVARIANTS TypeOK Serialized NobodyStartsEarly
PROPERTIES Implements Termination
