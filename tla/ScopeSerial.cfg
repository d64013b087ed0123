\* One call at a time, interrupted by editors, reviewers and crashes.
SPECIFICATION FairSpec
CONSTANTS
  NoFile = NoFile
  Handle = {"a", "b"}
  Body <- Texts
  Valid <- ValidTexts
  Nodes <- NodesOf
  Worker = {w1}
  MaxEdits = 3
  MaxCrashes = 1
  MaxMints = 3
INVARIANTS StateShape LedgerIdsUnique IdNeverRebound ApprovedWasVetted
PROPERTIES HandleKeepsId OnlyRepairMovesVerdict DriftIsRepaired
\* A tree nobody touches any more is at rest.
CHECK_DEADLOCK FALSE
