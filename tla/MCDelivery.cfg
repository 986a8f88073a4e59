SPECIFICATION Spec
CONSTANTS
  e1 = e1
  Events <- MCEvents
  Messages = {m1, m2}
  EventOf <- MCEventOf
  Malformed = {}
  Workers = {w1, w2}
  BatchSize = 2
  MaxReceive = 3
  NoMessage = NoMessage
SYMMETRY Symmetry
INVARIANTS Inv AtMostOnce
PROPERTY ImplementsOnceOnly
