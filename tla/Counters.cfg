SPECIFICATION MCSpec
CONSTANTS
  Producers = {p1, p2}
  Capacity = 2
  Items = 3
  None = None
  Readers = {r1}
  Writers = {w1, w2}
  Words = {x1, x2}
  Wrap = 4
  Stores = 4
INVARIANTS TypeOK IndexOrder SoleProducerFIFO SeqTypeOK Untorn
PROPERTIES PushedArePopped LoadsReturn
