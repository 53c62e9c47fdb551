SPECIFICATION FairSpec

CONSTANTS
  c1 = c1
  c2 = c2
  c3 = c3
  g1 = g1
  o1 = o1
  o2 = o2
  o3 = o3
  NoNode = NoNode
  Nodes = {"n1", "n2"}
  Keys = {o1, o2, o3}
  KeyOf <- KeyNames
  Order <- ByName
  Small = {o2}
  Calls = {c1, c2, c3}
  Args <- JoinArgs
  Gets = {g1}
  GetKey <- GetFirst
  GetNode <- OnSecond
  Makers <- MadeOn
  MaxRoutes = 2
  Racy = FALSE

INVARIANTS
  AddressesHold
  WaitsAgree
  ReadyHasData
  ScheduledOnce
  InflightIsReal

PROPERTIES
  EveryCallRuns

CHECK_DEADLOCK FALSE
