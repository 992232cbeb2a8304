SPECIFICATION FairSpec
CONSTANTS
  Conns = {c1, c2}
  NoConn = NoConn
  Tasks = {1}
  MaxFaults = 1
  Overlap = TRUE
  LateWriter = TRUE
  Beats = FALSE
INVARIANTS
  TypeOK
  OneOpenSession
  SessionHasHandler
PROPERTIES
  QueueSpec
  LinkRecovers
\* Without heartbeats the system comes to rest when every task is answered.
CHECK_DEADLOCK FALSE
