SPECIFICATION FairSpec
CONSTANTS
  topk = topk
  model = model
  a = a
  b = b
  Key = {topk, model}
  c = c
  Value = {a, b, c}
  Parsed <- MCParsed
  Deployed <- MCDeployed
  Forms <- MCForms
  None = None
  Bad = Bad
  MaxOps = 3
  MaxJobs = 2
  MaxCrashes = 1
  MaxFaults = 1
CHECK_DEADLOCK FALSE
INVARIANTS EnvRecoverable SettingsInStep LogAccounts JobsExclude
PROPERTY JobSettles
