SPECIFICATION Spec
CONSTANTS
  Getters = {g1, g2}
  Thenners = {h1, h2}
  Worker = Worker
  NoThread = NoThread
CHECK_DEADLOCK FALSE
INVARIANT CallbackFutureLives
