SPECIFICATION FairSpec

CONSTANTS
  a1 = a1
  a2 = a2
  b1 = b1
  b2 = b2
  Apps = {a1, a2}
  Coords = {c1, c2}
  Nodes = {w1}
  Buckets = {b1, b2}
  Names = {n1, n2}
  OwnerOf <- TwoOwners
  Liberties = {}
  None = None
  MaxOps = 4

INVARIANTS
  NodesInStep

PROPERTIES
  EveryNodeLearns

CHECK_DEADLOCK FALSE
