CONSTANTS
  Main = Main
  Sub = Sub
  m1 = m1
  m2 = m2
  MainScript <- RunningCall
  SubEvents = {u}
  Parent = Parent
  Result = Result
  ToolUseId = TRUE
  None = None
  Capacity = 3
  MaxFaults = 0
  Careful = TRUE
  StreamFirst = TRUE
SPECIFICATION FairSpec
PROPERTY CardUpgrades
