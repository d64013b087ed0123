\* One client too slow for its queue.
SPECIFICATION FairSpec
CONSTANTS
  NoThread = NoThread
  NoRef = NoRef
  Ref = {r1, r2, r3}
  Thread = {t1}
  Client = {c1}
  RingMax = 2
  QueueMax = 1
  MaxLog = 3
PROPERTIES StaleStreamEnds
\* When every event is committed and every client is up to date, all rest.
CHECK_DEADLOCK FALSE
