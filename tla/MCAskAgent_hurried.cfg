CONSTANTS
  q1 = q1
  q2 = q2
  q3 = q3
  p1 = p1
  p2 = p2
  Questions = {q1}
  Prs = {p1, p2}
  NoPr = NoPr
  PrOf <- MCPrOf
  Patient = FALSE
  MaxPolls = 2
  MaxCrashes = 1
SPECIFICATION FairSpec
PROPERTY LeftoverPollsStop
