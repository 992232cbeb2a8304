SPECIFICATION Spec
CONSTANTS
  Pages = {"nodes","node","users","roles","events","audit-log","alerts","telegram-bots","attack-map","frame","system","node-deploy","node-tabs","node-metrics","dashboard","analytics"}
  n1 = n1
  n2 = n2
  p1 = p1
  p2 = p2
  none = none
  me = me
  u1 = u1
  u2 = u2
  a1 = a1
  a2 = a2
  Nodes = {n1, n2}
  Up = {n1}
  NoNode = none
  MaxJobs = 1
  Pots = {p1, p2}
  NoPot = none
  MaxActions = 2
  People = {me, u1, u2}
  Me = me
  NoUser = none
  Users = {"careful","another"}
  Few = {me, u1}
  MaxRequests = 1
  MaxEvents = 7
  PageSize = 1
  MaxEntries = 9
  AuditPage = 1
  Alerts = {a1, a2}
  Catalogue <- MCCatalogue
  Hosts = {n1, n2}
  NoHost = none
  MaxTicked = 1
  MaxDeploys = 2
  Terms <- MCTerms
  NodePath = "/nodes/1"
  b1 = b1
  b2 = b2
  Bots = {b1, b2}
  NoBot = none
  Options = {"events"}
  MaxCalls = 2
  r1 = r1
  r2 = r2
  Custom = {r1}
  NoRole = none
  Holders = {u1, u2}
  Perms = {"p"}
  MaxAtOnce = 2
  Hits = {1, 2, 3, 4}
  Unplaced = {3}
  SeedCap = 2
  LiveCap = 2
  FeedCap = 2
  Sockets = {1, 2}
  MaxTokens = 2
  Percents = {89, 90}
  Counts = {1, 2}
  Kinds = {"cowrie", "web"}
  MaxRows = 2
  Hours = {1, 6}
  MaxReports = 2
  MaxTimers = 2
  Home <- MCHome
  Analyzed = {n1}
  Matching = {n2, p1}
  MaxFrames = 2
  Fleets <- MCFleets
  PotLists <- MCLists
  Periods = {6, 24}
  Recorded <- MCRecorded
  Fragile = {"ips"}
INVARIANTS
  ScreensAreTrue
  RowsAddUp
  NothingWaitsInVain
  WhatMustStayStays
PROPERTIES
  BulkIsSeen
  NothingGoesBack
