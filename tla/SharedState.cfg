SPECIFICATION FairSpec
CONSTANTS
  Getters = {g1, g2}
  Thenners = {h1, h2}
  Worker = Worker
  NoThread = NoThread
CHECK_DEADLOCK FALSE
INVARIANT OutcomeFirst
INVARIANT ContinuationOnce
PROPERTY ContinuationPushed
PROPERTY GettersReturn
