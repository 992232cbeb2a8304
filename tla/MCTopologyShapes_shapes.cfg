SPECIFICATION Spec
CONSTANTS
  Cards = 3
  Kinds = {"internet", "firewall", "dmz", "linux", "honeypot", "database", "loganalyzer"}
  Xs = {0, 600, 1200}
  MaxHosts = 2
  MaxPots = 2
  NoNode = NoNode
INVARIANTS
  DrawnRight
  ImportIsOneNetwork
PROPERTIES
  MovesAsExpected
\* One step is taken on each drawing.
CHECK_DEADLOCK FALSE
