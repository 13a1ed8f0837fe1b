SPECIFICATION Spec
CONSTANTS
  Readers = {r1, r2, r3}
  Writers = {w1, w2}
  Messages = 2
  Lockers = {l1, l2, l3}
  Rounds = 2
INVARIANTS TypeOK CountsSleepers Current
PROPERTIES Preference Termination Implements
