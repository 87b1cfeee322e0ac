SPECIFICATION Spec
CONSTANTS
  Parts = {"lock", "schema", "storage", "command", "monitor", "download", "source", "deployment", "user", "host"}
  a = a b = b c = c
  Callers = {a, b, c}
  Deployments <- MCDeployments
  LockCalls <- MCLockCalls
  Programs = {a, b, c}
  DiffsOf <- MCDiffsOf
  SchemaCalls <- MCSchemaCalls
  Contents = {"first", "second"}
  Users = {a, b}
  StorageCalls = 2
  StorageOpens = 3
  Last = 2
  Capacity = 1
  Output = 2
  Texts = {0, 2}
  Executions = 2
  Clients = {"p", "q"}
  Dirs = {"d", "e"}
  Names = {"f", "g"}
  Adds = 3
  Downloaders = {a, b}
  BodyParts = 2
  Downloads <- MCDownloads
  Tries = 3
  Hosts = {a, b}
  MaxCalls = 3
  MaxWrites = 2
  MaxMishaps = 1
  Accounts = {"root", "we", "service"}
  Root = "root"
  MaxChain = 3
  Machines = {a, b}
  Tasks = {a, b}
  MaxGlitches = 1
CHECK_DEADLOCK FALSE
INVARIANT LocksRight
INVARIANT StoredRight
INVARIANT CommandsRight
INVARIANT MonitorRight
INVARIANT FetchedRight
INVARIANT DeploymentsRight
PROPERTY CallsEnd
