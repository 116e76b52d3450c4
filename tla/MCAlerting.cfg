SPECIFICATION Spec
CONSTANTS
  s1 = s1
  Chat = {s1}
  ScanEvery = 2
  Window = 2
  ProbeEvery = 1
  HealthEvery = 1
  DedupWindow = 2
  FailConfirm = 2
  ConfirmWindows = 2
  MaxTime = 4
  Budgets <- MCBudgets
CHECK_DEADLOCK FALSE
INVARIANTS FlagsNotSilenced FlagsAlerted DownIsAlerted HealthConfirmed
