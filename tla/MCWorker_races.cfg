SPECIFICATION Spec
CONSTANTS
  j1 = j1
  j2 = j2
  j3 = j3
  w1 = w1
  w2 = w2
  c1 = c1
  c2 = c2
  submitter = submitter
  NoKey = NoKey
  Jobs = {j1}
  Workers = {w1, w2}
  Callers = {c1}
  Home <- InSubmitter
  Corr <- NoKeys
  Idem <- NoKeys
  Delay <- DueAtOnce
  LeaseTicks = 1
  ReclaimLimit = 20
  Concurrency = 1
  PollLimit = 10
  HbTicks = 1
  RequeueFrom = {"failed", "cancelled"}
  Calls = {"cancel", "clear"}
  FaultKinds = {"crash", "side_error"}
  MaxFaults = 1
  MaxRequeues = 1
INVARIANTS TypeOK FencedOwner AcceptedOnce TerminalHasItsResult OutputMatchesRow
PROPERTIES CancelSticks
SYMMETRY Symmetric
CHECK_DEADLOCK FALSE
