SPECIFICATION DifferSpec
CONSTANTS
  Gateway = {g1, g2}
  Listener = {l1, l2}
  Name = {n1, n2, n3, n4}
  NoName = NoName
  MaxCalls = 2
  MaxFaults = 1
SYMMETRY Symmetry
INVARIANTS OwnAnswer AtMostOnce AnswerIsTrue
CHECK_DEADLOCK FALSE
