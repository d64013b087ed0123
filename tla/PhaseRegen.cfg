\* A built node drafted again after the registry moved a feature.
SPECIFICATION Spec
CONSTANTS
  Feature = {"f1", "f2"}
  Resp = {"r1", "r2", "r3"}
  Comp = {"a", "b"}
  Sub = {"a1", "b1"}
  Order = {1, 2}
  PhaseId = {"p1", "p2"}
  NoPhase = NoPhase
  NoImpl = NoImpl
  Serves <- Serving
  Owns <- Owning
  CompOf <- Parent
  SubOwns <- Owned
  Graphs <- Edges
  MaxEdits = 6
  MaxDrafts = 2
  MaxCrashes = 0
PROPERTIES RegenClearsError
\* A project nobody edits any more is at rest.
CHECK_DEADLOCK FALSE
