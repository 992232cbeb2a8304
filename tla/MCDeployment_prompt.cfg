SPECIFICATION DeliverySpec
CONSTANTS
  Pots = {p1}
  Workers = {w1}
  Commands = {"install", "start", "remove"}
  MaxTasks = 3
  Reporting = FALSE
  MaxFaults = 1
  Watched = {"asked", "unqueued", "overtaken", "taken", "split"}
PROPERTIES
  NeverStuck
  RemovalWasRequested
  RemovalEnds
\* Without reports the system comes to rest.
CHECK_DEADLOCK FALSE
