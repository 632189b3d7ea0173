CONSTANTS
  Tokens = {k1, k2}
  None = None
  MaxEdits = 4
  MaxDeaths = 1
  ActivityTime = 4
  SeededFirst = TRUE
  AddFails = TRUE
  FetchFails = FALSE
  RuntimeEdits = 2
  RuntimeKills = 2
  MaxLosses = 1
  Callers = {c1, c2}
  ServiceNames = {a, b}
  Urls = {u, v}
  MaxWrites = 3
  MaxRestarts = 1
SPECIFICATION AllSpec
INVARIANTS
  TypesHold
  OneTunnel
  NothingStranded
PROPERTIES
  TunnelServes
  DeadTurnGoesIdle
  
  EditsArePushed
  
CHECK_DEADLOCK FALSE
