CONSTANTS
  None = None
  s1 = s1
  s2 = s2
  Scripts = {s1, s2}
  Agent <- TwoAgents
  Panels = {chat, web}
  Services = {web}
  Terminal = term
  LayoutEvents = 2
  LayoutPosts = 1
  Handlers = {h1, h2}
  Agents = {a, b}
  Chat = a
  Keys = {k1, k2}
  Console = Console
  MaxLogins = 2
  OneSubmission = TRUE
  Methods = {"outer", "local", "direct"}
  MaxLocal = 1
  BackupEdits = 1
  MaxTouches = 2
  BackupTicks = 2
  BackupKills = 1
  MaxRuns = 2
  RevealKills = 1
  MaxPreviews = 2
SPECIFICATION AllSpec
INVARIANTS
  TypesHold
  
  SlotKept
  KeyTakesEffect
  NoStrayLogin
  NowIsFresh
  ReadIntact
  ExitIsTrue
  PreviewAccounted
CHECK_DEADLOCK FALSE
