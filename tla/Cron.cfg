\* Two jobs, now or later, once or repeating, fired or skipped.  An empty map's
\* begin()->first is long ago with libstdc++, which finds the node count 0
\* there; anything, a time to come included, elsewhere.
SPECIFICATION FairSpec
CONSTANTS
  Jobs = {j1, j2}
  Delays = {0, 2}
  Periods = {0, 1, 2}
  Skips = {0, 1}
  EmptyKeys = {0, 3}
  MaxLate = 3
CHECK_DEADLOCK FALSE
INVARIANT TypeOK
PROPERTY FiringsApart
PROPERTY RepeatingKept
PROPERTY DueTaskTaken
PROPERTY StopEndsThread
