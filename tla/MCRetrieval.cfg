\* A question by number or without one over three laws, at most one deletion and two failing
\* searches or fetches.
SPECIFICATION RetrievalSpec
CONSTANTS
  a1 = a1
  a2 = a2
  b2 = b2
  c3 = c3
  r1 = r1
  h1 = h1
  h2 = h2
  g1 = g1
  g2 = g2
  g3 = g3
  Request = {r1}
  Number = {1, 2, 3}
  LawArticle <- MCArticle
  Corpus <- MCCorpus
  SourceOf <- MCSourceOf
  Mentions <- MCMentions
  Beginning <- MCBeginning
  Opening <- MCOpening
  Rankings <- MCRankings
  KeywordOrders <- MCKeywordOrders
  Questions <- MCQuestions
  TopN = 2
  SummaryTopK = 2
  MaxPool = 4
  MaxFaults = 2
INVARIANTS
  NamedArticleAnswered
  SourcesHeard
  FoundIsAnswered
CHECK_DEADLOCK FALSE
