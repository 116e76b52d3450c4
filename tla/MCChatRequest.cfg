SPECIFICATION FairSpec
CONSTANTS
  r1 = r1
  r2 = r2
  r3 = r3
  s1 = s1
  k1 = k1
  Request = {r1, r2, r3}
  Session = {s1}
  Key = {k1}
  Inputs <- MCInputs
  AuthMode = "keys"
  HistoryLimit = 2
  Limit = 1
  MinuteTicks = 2
  MaxTime = 2
  MaxCrashes = 1
  MaxFaults = 1
  NoRequest = NoRequest
CHECK_DEADLOCK FALSE
INVARIANTS ContextClean TurnsPaired AnsweredIsRecorded RateBound
PROPERTY Served
