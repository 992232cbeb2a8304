SPECIFICATION Spec
CONSTANTS
  ann = ann
  bob = bob
  nobody = nobody
  me = me
  c = c
  Users = {ann, bob}
  NoUser = nobody
  Calls = {me, c}
  Me = me
  Promises = {1, 2}
  MaxTokens = 4
INVARIANTS
  OneSession
  RetryIsNewer
PROPERTIES
  SignedInUntilRefreshFails
  EveryCallSettles
