SPECIFICATION FairSpec

CHECK_DEADLOCK FALSE

CONSTANTS
  s1 = s1
  s2 = s2
  r = r
  q = q
  Senders = {s1, s2}
  Receiver = r
  Closer = q
  Threads = {s1, s2, r, q}
  Waiters = {"cc", "wt", "rd"}
  Setups <- MCSetups
  ConnMod = 4

INVARIANTS
  ChunksApart
  WholeInOrder

PROPERTIES
  EveryMessageArrives
  DisconnectFrees
