SPECIFICATION FairSpec
CONSTANTS
  e1 = e1
  Events <- MCEvents
  Messages = {m1, bad}
  EventOf <- MCEventOf
  Malformed = {bad}
  Workers = {w1, w2}
  BatchSize = 2
  MaxReceive = 2
  NoMessage = NoMessage
INVARIANTS NoSilentAck
PROPERTY EveryMessageSettles
