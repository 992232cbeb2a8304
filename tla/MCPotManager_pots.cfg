SPECIFICATION Spec
CONSTANTS
  Pots = {p1}
  Procs = {g1, g2}
  Workers = {w1, w2}
  NoPot = NoPot
  NoProc = NoProc
  Kinds = {"install", "start", "stop", "restart", "remove"}
  Watched = {"removed", "overlap", "disk", "late"}
  MaxRestarts = 1
SYMMETRY Interchangeable
INVARIANTS
  TypeOK
  TrackedIsMonitored
  OneTrackedProcess
  ExitsAreJudged
  
  RemovedStaysRemoved
  InstallCanBeRepeated
