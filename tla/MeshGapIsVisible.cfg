SPECIFICATION MeshSpec
CONSTANTS
  Posts = {m1, m2, m3}
  Boot = boot
  Clicks = {}
  MaxLogLen = 2
  LiveCapacity = 1
INVARIANT GapIsVisible
CHECK_DEADLOCK FALSE
