SPECIFICATION Spec

CONSTANTS
  c1 = c1
  c2 = c2
  c3 = c3
  f = f
  g = g
  NoCall = NoCall
  Executors = {"e1", "e2"}
  Calls = {c1, c2, c3}
  Funcs = {f, g}
  FuncOf <- FanFuncOf
  Children <- FanChildren
  SharedExecutor = TRUE
  DelayOn = FALSE
  RejectExtra = FALSE
  BlockingOps = {"put"}
  MaxReports = 2
  MaxOps = 1
  RidMod = 2

INVARIANTS
  StatusTracks
  LossesPaidByReports
  ExactlyOnePlace
  HeldPaidByReports
