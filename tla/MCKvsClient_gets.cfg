SPECIFICATION FairSpec

CONSTANTS
  k1 = k1
  p1 = p1
  Keys = {k1}
  Puts = {p1}
  KeyOf <- OnePut
  Servers = {w1, w2}
  Stored = {k1}
  None = None
  Hasty = TRUE
  MaxLosses = 2
  MaxMoves = 2
  MaxExpiries = 3
  MaxGets = 2

INVARIANTS
  RequestsAccounted

PROPERTIES
  EveryGetAnswered

CHECK_DEADLOCK FALSE
