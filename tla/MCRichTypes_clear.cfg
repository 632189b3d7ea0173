CONSTANTS
  t1 = t1
  t2 = t2
  t3 = t3
  f1 = f1
  Trees = {t1}
  Fps = {f1, f2}
  NoFp = NoFp
  PristineFp <- MCPristineFp
  Rewrites <- MCRewrites
  Handlers = {h1}
  Runs = {r1}
  NoRun = NoRun
  Ops = {"auto", "start", "clear"}
  Keep = 2
  Overlap = TRUE
  MaxCrashes = 0
SPECIFICATION Spec
INVARIANT StoreIntact
