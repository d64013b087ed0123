\* One user, one input document, no reader.
SPECIFICATION RetrySpec
CONSTANTS
  Nobody = Nobody
  NoPath = NoPath
  NoName = NoName
  Reader = {}
  Session = {s1}
  Name = {}
  Role = {d1}
  Path <- MCPath
  Debounce = 1
  MaxClock = 0
  MaxIds = 2
  MaxCommits = 2
PROPERTY RetryRegisters
CHECK_DEADLOCK FALSE
