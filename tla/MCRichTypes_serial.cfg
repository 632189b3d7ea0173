CONSTANTS
  t1 = t1
  t2 = t2
  t3 = t3
  f1 = f1
  Trees = {t1, t2, t3}
  Fps = {f1, f2, f3}
  NoFp = NoFp
  PristineFp <- MCPristineFp
  Rewrites <- MCRewrites
  Handlers = {h1}
  Runs = {r1}
  NoRun = NoRun
  Ops = {"auto", "start", "force", "clear"}
  Keep = 1
  Overlap = FALSE
  MaxCrashes = 0
SPECIFICATION FairSpec
INVARIANTS
  TypeOK
  InstallIsLocal
  NoEarlyReady
  ReadyIsUsable
  LinkMatchesDeps
PROPERTIES
  
  InstallResolves
