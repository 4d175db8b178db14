SPECIFICATION FairSpec
CONSTANTS
  m = m
  Hosts = {1, 2}
  Models = {m}
  Calls = {1, 2}
  Model <- OneModel
  WarmCapacity = 1
  Spillover = 1
  FailTicks = 1
  Timed = {1}
  Streamed = {1}
  Policy <- Policies
  Errors <- Raised
  MaxChunks = 2
  Cancels = {1}
INVARIANTS ExecTypeOK FollowerTruth
PROPERTIES RetriesMoveOn EverybodyEnds
CHECK_DEADLOCK FALSE
