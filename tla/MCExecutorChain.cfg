SPECIFICATION FairSpec
CONSTANTS
  c1 = c1 c2 = c2 t1 = t1 t2 = t2 t3 = t3
  N = 2
  Clients <- MCClients
  Tasks <- MCTasks
  Programs <- ChainPrograms
  NoTask = NoTask
  NoThread = NoThread
CHECK_DEADLOCK FALSE
PROPERTY ClientsFinish
