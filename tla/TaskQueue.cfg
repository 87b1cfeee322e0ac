SPECIFICATION FairSpec
CONSTANTS
  Producers = {p1, p2}
  Consumers = {c1, c2}
  Closers = {d1}
  Tasks = {t1, t2}
  NoTask = NoTask
  NoThread = NoThread
  MaxSpurious = 1
CHECK_DEADLOCK FALSE
INVARIANT TypeOK
INVARIANT FIFO
INVARIANT NoLostWakeup
INVARIANT IdleMeansIdle
PROPERTY ImplementsAtomicQueue
PROPERTY DoneReleasesConsumers
PROPERTY EveryTaskTaken
