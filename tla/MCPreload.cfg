SPECIFICATION Spec
CONSTANTS
  small = small
  big = big
  Hosts = {1, 2}
  Models = {small, big}
  Jobs = {1, 2}
  Calls = {1, 2}
  Model <- ModelOf
  WarmCapacity = 1
  Spillover = 1
  FailTicks = 1
  Concurrency = 2
  Lookahead = 1
  PollLimit = 2
  WideLimit = 2
  MaxConcurrent = 2
  UnloadUnused = TRUE
  Size <- SizeOf
  Vram <- VramOf
  Margin = 20
  Budgets <- BudgetsOf
  NoBudget <- Negative
  UnknownSize <- Negative
  NoSize <- Negative
  Second = 10
  KeepAlive <- KeepOf
  PolicyKeep <- Negative
  MaxKeep = 18000
  MaxFaults = 1
INVARIANTS TypeOK LoadsAreCalls PlanIsSound
PROPERTIES SpillsOver
