SPECIFICATION FairSpec
CONSTANTS
  Conns = {c1}
  NoConn = NoConn
  Tasks = {1}
  MaxFaults = 3
  Overlap = FALSE
  LateWriter = FALSE
  Beats = TRUE
INVARIANTS
  NothingForgotten
PROPERTIES
  EveryTaskAnswered
