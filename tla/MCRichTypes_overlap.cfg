CONSTANTS
  t1 = t1
  t2 = t2
  t3 = t3
  f1 = f1
  Trees = {t1}
  Fps = {f1, f2}
  NoFp = NoFp
  PristineFp <- MCPristineFp
  Rewrites <- MCRewrites
  Handlers = {h1}
  Runs = {r1, r2}
  NoRun = NoRun
  Ops = {"auto", "start", "force", "clear"}
  Keep = 1
  Overlap = TRUE
  MaxCrashes = 1
SPECIFICATION Spec
INVARIANT InstallingIsOwned
SYMMETRY MCSymmetry
