SPECIFICATION FairSpec
CONSTANTS
  Pots = {p1}
  Procs = {g1, g2}
  Workers = {w1, w2}
  NoPot = NoPot
  NoProc = NoProc
  Kinds = {"install", "remove"}
  Watched = {}
  MaxRestarts = 0
PROPERTIES
  StoppedEnds
  CommandsEnd
