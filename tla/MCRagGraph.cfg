\* Any question about two articles, any retrieval, any three drafts.
SPECIFICATION FairSpec
CONSTANTS
  Article = {a1, a2}
  Plain = Plain
  MaxRetries = 2
CHECK_DEADLOCK FALSE
INVARIANTS CitesOnlyEvidence BlockedStaysInside
PROPERTIES Answered ImplementsGate
