CONSTANTS
  Main = Main
  Sub = Sub
  m1 = m1
  m2 = m2
  MainScript <- TwoMessages
  SubEvents = {u}
  Parent = Parent
  Result = Result
  ToolUseId = TRUE
  None = None
  Capacity = 1
  MaxFaults = 1
  Careful = TRUE
  StreamFirst = TRUE
SPECIFICATION FairSpec
INVARIANTS
  TypeOK
  IndexMatchesFile
  
PROPERTIES
  ExactlyOnce
  
