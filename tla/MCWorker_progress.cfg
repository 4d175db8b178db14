SPECIFICATION FairSpec
CONSTANTS
  j1 = j1
  j2 = j2
  j3 = j3
  w1 = w1
  w2 = w2
  c1 = c1
  c2 = c2
  submitter = submitter
  NoKey = NoKey
  Jobs = {j1, j2}
  Workers = {w1}
  Callers = {}
  Home <- InSubmitter
  Corr <- NoKeys
  Idem <- NoKeys
  Delay <- DueLater
  LeaseTicks = 1
  ReclaimLimit = 1
  Concurrency = 1
  PollLimit = 1
  HbTicks = 1
  RequeueFrom = {"failed"}
  Calls = {}
  FaultKinds = {"crash", "shutdown", "store_error", "side_error"}
  MaxFaults = 2
  MaxRequeues = 0
PROPERTIES OrphansRecovered QueuedSettles
CHECK_DEADLOCK FALSE
