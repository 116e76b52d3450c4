SPECIFICATION FairSpec
CONSTANTS
  a1 = a1
  a2 = a2
  Article = {a1, a2}
  MaxRetries = 2
  MaxHops = 2
CHECK_DEADLOCK FALSE
INVARIANT CitesOnlyShown
PROPERTIES Settles ImplementsGate
