SPECIFICATION FairSpec
CONSTANTS
  Pots = {p1}
  Workers = {w1}
  Commands = {"installStart", "start", "stop", "remove", "config"}
  MaxTasks = 2
  Reporting = TRUE
  MaxFaults = 1
  Watched = {}
PROPERTIES
  RowsConverge
