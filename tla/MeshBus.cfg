SPECIFICATION MeshSpec
CONSTANTS
  Posts = {m1, m2, m3}
  Boot = boot
  Clicks = {k1}
  MaxLogLen = 2
  LiveCapacity = 1
SYMMETRY Symmetry
INVARIANTS MeshTypeOK RealTimeOrder NoLineTwice RefreshResyncs
\* The system is quiet once everything posted is shown.
CHECK_DEADLOCK FALSE
