SPECIFICATION FairSpec
CONSTANTS
  Conns = {c1, c2, c3}
  NoConn = NoConn
  Tasks = {}
  MaxFaults = 2
  Overlap = TRUE
  LateWriter = TRUE
  Beats = TRUE
INVARIANTS
  StatusIsTrue
PROPERTIES
  HeartbeatHeals
