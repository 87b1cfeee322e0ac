SPECIFICATION FairSpec
CONSTANTS
  c1 = c1 c2 = c2 t1 = t1 t2 = t2 t3 = t3
  N = 2
  Clients <- MCClients
  Tasks <- MCTasks
  Programs <- MCPrograms
  NoTask = NoTask
  NoThread = NoThread
CHECK_DEADLOCK FALSE
INVARIANT PushNeverSleeps
INVARIANT NeverRunsEmpty
INVARIANT InOnePlace
INVARIANT WaitMeansDone
PROPERTY ClientsFinish
PROPERTY ImplementsTaskPool
