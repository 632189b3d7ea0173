CONSTANTS
  q1 = q1
  q2 = q2
  q3 = q3
  p1 = p1
  p2 = p2
  Questions = {q1, q2, q3}
  Prs = {p1, p2}
  NoPr = NoPr
  PrOf <- MCPrOf
  Patient = TRUE
  MaxPolls = 1
  MaxCrashes = 1
SPECIFICATION FairSpec
INVARIANTS
  TypeOK
  RunningIsOwned
  AnswerHasLog
  ShownIsSaved
PROPERTIES
  AnswerKept
  ShownResolves
