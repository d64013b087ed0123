\* A review attached to a draft it does not discuss.
SPECIFICATION Spec
CONSTANTS
  NoFile = NoFile
  Handle = {"a", "b"}
  Body <- Texts
  Valid <- ValidTexts
  Nodes <- NodesOf
  Worker = {w1}
  MaxEdits = 2
  MaxCrashes = 0
  MaxMints = 3
INVARIANTS ReviewIsOfTheDraft
\* A tree nobody touches any more is at rest.
CHECK_DEADLOCK FALSE
