SPECIFICATION GateSpec
CONSTANTS
  g1 = g1
  g2 = g2
  g3 = g3
  q1 = q1
  q2 = q2
  Gate = {g1, g2, g3}
  Query = {q1, q2}
  Calls <- MCCalls
  Torn = Torn
SYMMETRY Symmetry
CHECK_DEADLOCK FALSE
INVARIANTS PassIsConfirmed LedgerRemembers
