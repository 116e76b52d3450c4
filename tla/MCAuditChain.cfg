\* One rag-api process with two writer threads, three records over two days, and
\* up to two faults (crash, failed or torn append, operator clear).
SPECIFICATION FairSpec
CONSTANTS
  t1 = t1
  t2 = t2
  api = api
  cli = cli
  Proc = {api}
  Thread = {t1, t2}
  ProcOf <- InOneProcess
  Event = {e1, e2, e3}
  MaxDay = 2
  MaxFaults = 2
  ClearDuringWrite = FALSE
  NoHash = NoHash
  NoThread = NoThread
CHECK_DEADLOCK FALSE
INVARIANT ChainIntact
PROPERTIES NoFalseAlarm WriteReturns ImplementsLedger
