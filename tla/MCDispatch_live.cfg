SPECIFICATION FairSpec

CONSTANTS
  c1 = c1
  c2 = c2
  c3 = c3
  f = f
  g = g
  NoCall = NoCall
  Executors = {"e1"}
  Calls = {c1, c2}
  Funcs = {f, g}
  FuncOf <- PairFuncOf
  Children <- PairChildren
  SharedExecutor = TRUE
  DelayOn = TRUE
  RejectExtra = FALSE
  BlockingOps = {"get"}
  MaxReports = 3
  MaxOps = 3
  RidMod = 4

INVARIANTS
  ExactlyOnePlace
  StaleReplyRejected

PROPERTIES
  EveryCallSettles
