SPECIFICATION Spec
CONSTANTS
  e1 = e1
  Events <- MCEvents
  Messages = {m1}
  EventOf <- MCEventOf
  Malformed = {}
  Workers = {w1, w2}
  BatchSize = 2
  MaxReceive = 2
  NoMessage = NoMessage
SYMMETRY Symmetry
INVARIANT FailedWorkIsKept
