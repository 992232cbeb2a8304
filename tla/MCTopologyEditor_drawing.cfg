SPECIFICATION Spec
CONSTANTS
  Ids = {n1, n2, n3}
  NoId = NoId
  Notes = {0, 1}
  Default = 0
  EdgeTypes = {"link", "deny"}
  NoDrawing = NoDrawing
  MaxHistory = 2
  MaxEdits = 3
  Drafts <- SavedBefore
SYMMETRY Interchangeable
INVARIANTS
  Sound
PROPERTIES
  RemovedCanComeBack
  OneLine
