SPECIFICATION FairSpec
CONSTANTS
  l1 = l1 l2 = l2 c1 = c1 c2 = c2
  Leaves <- TwoLeaves
  Callers <- TwoCallers
  Requests <- MCRequests
  NoThread = NoThread
  NoIndex = NoIndex
CHECK_DEADLOCK FALSE
INVARIANT AllMeansAll
PROPERTY AnyMeansAny
PROPERTY CallersReturn
PROPERTY AnyCompletes
PROPERTY AllCompletesInTime
