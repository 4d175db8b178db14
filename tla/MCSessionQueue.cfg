SPECIFICATION FairSpec
CONSTANTS
  a1 = a1
  a2 = a2
  a3 = a3
  b1 = b1
  n1 = n1
  a = a
  b = b
  w1 = w1
  w2 = w2
  None = None
  NoKey = NoKey
  Tasks = {a1, a2, a3, b1, n1}
  Workers = {w1, w2}
  Key <- KeyOf
  Prio <- PrioOf
  MaxKilled = 1
INVARIANTS TypeOK
PROPERTIES ImplementsKeyedQueue EveryTaskEnds
CHECK_DEADLOCK FALSE
