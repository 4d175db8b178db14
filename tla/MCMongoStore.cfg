SPECIFICATION BoundedSpec
CONSTANTS
  j1 = j1
  j2 = j2
  j3 = j3
  j4 = j4
  order1 = order1
  retry1 = retry1
  NoKey = NoKey
  Jobs = {j1, j2, j3, j4}
  Corr <- CorrOf
  Idem <- IdemOf
  Delay <- DelayOf
  LeaseTicks = 1
  ReclaimLimit = 1
  MaxToken = 2
  a = a
  b = b
  Clients = {a, b}
  CorrJobs = {j1, j2}
INVARIANTS StoreInv KeysUnique EnqueuesAgree
PROPERTIES NeverRerunCompleted ImplementsStore
SYMMETRY Symmetric
CHECK_DEADLOCK FALSE
