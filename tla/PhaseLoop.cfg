\* Every dependency graph and every assignment of features to three phases.
SPECIFICATION FairLoopSpec
CONSTANTS
  Feature = {"f1", "f2", "f3"}
  Resp = {"r1", "r2", "r3", "r4", "r5"}
  Comp = {"a", "b", "c"}
  Sub = {"a1", "a2", "b1", "c1"}
  Order = {1, 2, 3}
  Serves <- Serving
  Owns <- Owning
  CompOf <- Parent
  SubOwns <- Slice
INVARIANTS ScheduleIsEarliest PlanBuildsOnFinishedWork PlanDelivers
PROPERTIES LoopEnds
\* A computed plan is the end.
CHECK_DEADLOCK FALSE
