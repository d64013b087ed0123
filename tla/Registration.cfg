SPECIFICATION Spec
CONSTANTS
  Nobody = Nobody
  NoPath = NoPath
  NoName = NoName
  Reader = {r1, r2}
  Session = {s1, s2}
  Name = {n1}
  Role = {d1}
  Path <- MCPath
  Debounce = 1
  MaxClock = 1
  MaxIds = 2
  MaxCommits = 2
SYMMETRY MCSymmetry
INVARIANT DuplicatesOverlap
INVARIANT RowHasBody
INVARIANT PushedBodyFound
INVARIANT ReadsGoOn
CHECK_DEADLOCK FALSE
