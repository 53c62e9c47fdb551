SPECIFICATION FairSpec

CONSTANTS
  n1 = n1
  n2 = n2
  p1 = p1
  p2 = p2
  c1 = c1
  c2 = c2
  c3 = c3
  c4 = c4
  Nodes = {n1, n2}
  Clients = {p1, p2}
  Calls = {c1, c2, c3, c4}
  Size <- MixSize
  ClientOf <- TwoClient
  Chained = {c2}
  Capacity <- UnitCapacity
  Retry <- OnceMore
  Settings <- AllSettings
  MaxStatus = 1
  NoSession = NoSession
  NoSource = NoSource
  NoClient = NoClient
  NoCall = NoCall

INVARIANTS
  RequestsConserved
  AnswersReachCaller
  ReturnsOwnAnswer

PROPERTIES
  SpreadsFirst
  EveryCallReturns
