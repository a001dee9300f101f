SPECIFICATION FairMeshSpec
CONSTANTS
  Posts = {m1, m2}
  Boot = boot
  Clicks = {k1}
  MaxLogLen = 2
  LiveCapacity = 1
PROPERTY LinesReachTheOperator
\* The system is quiet once everything posted is shown.
CHECK_DEADLOCK FALSE
