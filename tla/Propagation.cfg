\* One session at a time drains, with failures, a crash and edits by others.
SPECIFICATION FairSpec
CONSTANTS
  Scope <- Project
  Session = {k1}
  NoScope = NoScope
  MaxTries = 2
  MaxOpens = 1
  MaxEdits = 1
  MaxFails = 2
  MaxCrashes = 1
  MaxRepeats = 1
INVARIANTS WorklistIsSubtree PassedIsFresh FinishedIsFresh
PROPERTIES DrainCompletes
\* A project nobody changes any more is at rest.
CHECK_DEADLOCK FALSE
