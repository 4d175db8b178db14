SPECIFICATION Spec
CONSTANTS
  a = a
  b = b
  c = c
  Clients = {a, b, c}
  Transport <- TransportOf
  MaxCalls = 2
  MaxAnswers = 1
INVARIANTS AnswerAhead
CHECK_DEADLOCK FALSE
