\* The registry edited, planned, minted and built, with calls that die.
SPECIFICATION Spec
CONSTANTS
  Feature = {"f1", "f2"}
  Resp = {"r1", "r2", "r3"}
  Comp = {"a", "b"}
  Sub = {"a1", "b1"}
  Order = {1, 2}
  PhaseId = {"p1", "p2"}
  NoPhase = NoPhase
  NoImpl = NoImpl
  Serves <- Serving
  Owns <- Owning
  CompOf <- Parent
  SubOwns <- Owned
  Graphs <- Edges
  MaxEdits = 6
  MaxDrafts = 2
  MaxCrashes = 1
INVARIANTS AtMostOnePhase BuiltPhasesDeliver
PROPERTIES MintSettles DraftFollowsPlan BuiltNodesKept
\* A project nobody edits any more is at rest.
CHECK_DEADLOCK FALSE
