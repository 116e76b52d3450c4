\* Two queries, one request handler and one script over two documents that
\* change once each, and two generations.
SPECIFICATION FairSpec
CONSTANTS
  Query = {q1, q2}
  Handler = {h1}
  Script = {s1}
  Doc = {d1, d2}
  MaxRev = 1
  MaxGen = 2
  NoApp = NoApp
  NoQuery = NoQuery
CHECK_DEADLOCK FALSE
INVARIANTS CachedCovers FreshAnswer
PROPERTY QueryServed
