SPECIFICATION Spec
CONSTANTS
  Nodes = {1, 2, 3, 4}
  Edges = {1}
  Drafts = {1, 2}
  Tiers = {"comp", "feat", "vocab", "fanin"}
  Kinds = {"pubapi"}
  EdgeTypes = {"dependency"}
  Texts = {"x"}
  None = None
  Sessions = {s1, s2}
  Batches = {1}
  Bodies = {"sha"}
  History <- MCHistory
  OldMarkers <- MCMarkers
  MaxEvents = 5
SYMMETRY MCSymmetry
INVARIANT DiffIsOfThePin
INVARIANT CreationKeepsTwoLevels
PROPERTY ImplementsLog
PROPERTY OffLogRowsKept
PROPERTY DraftsSettleOnce
CHECK_DEADLOCK FALSE
