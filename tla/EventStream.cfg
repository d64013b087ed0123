\* Two requests at a time, two clients, a ring and queues that overflow.
SPECIFICATION Spec
CONSTANTS
  NoThread = NoThread
  NoRef = NoRef
  Ref = {r1, r2, r3}
  Thread = {t1, t2}
  Client = {c1, c2}
  RingMax = 2
  QueueMax = 1
  MaxLog = 3
INVARIANTS OffsetsDense IdsRegisteredOnce OnlyCommittedPublished StaleOnlyIfLost RequestsGoOn
SYMMETRY Symmetric
\* When every event is committed and every client is up to date, all rest.
CHECK_DEADLOCK FALSE
