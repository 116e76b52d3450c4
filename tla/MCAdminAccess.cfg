SPECIFICATION AccessSpec
CONSTANTS
  e1 = e1
  e2 = e2
  Employee = {e1, e2}
  Cards <- MCCards
  Bundles <- MCBundles
  Lists <- MCLists
  Nil = Nil
  PasswordFallback = TRUE
  SkipNonceBinding = FALSE
  Ttl = 2
  MaxDepth = 8
  MaxTokens = 2
  MaxTime = 2
  MaxLogins = 1
  MaxBundles = 1
  MaxBoots = 1
  MaxLogFaults = 1
CHECK_DEADLOCK FALSE
INVARIANTS SignInsAccounted AnswersAreFresh ChainDecided
