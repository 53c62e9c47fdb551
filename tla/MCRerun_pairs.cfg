SPECIFICATION FairSpec

CONSTANTS
  Nodes = {n1, n2}
  Sources = {f1, f2}
  Sessions = {s1}
  Executors = 1
  PerKey = TRUE
  Delays = TRUE
  Slow = TRUE
  MaxLosses = 2
  MaxReruns = 3

INVARIANTS
  NotForgotten

PROPERTIES
  EveryObjectArrives

CHECK_DEADLOCK FALSE
