SPECIFICATION SyncFairSpec

CONSTANTS
  Workers = {"w1", "w2"}
  Workloads <- SetAndLocal
  Sessions = {"s1", "s2"}
  Keys = {"c1", "c2", "g1", "g2", "h1"}
  GroupOf <- Grouped
  NameKey = "g1"
  BatchCount = 2
  KeySet = {"g1", "h1"}
  ControlGroup = {"c1", "c2"}
  K = 2
  N = 3

INVARIANTS
  AtMostOnce
  Lockstep

PROPERTIES
  FiresLikeOneTrigger

CHECK_DEADLOCK FALSE
