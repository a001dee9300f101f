SPECIFICATION ShellSpec
CONSTANTS
  Calls = {c1, c2}
  Presentations = {e1, e2, e3, e4}
  Intents = {i1, i2, none}
  MockIntents = {i1, i2}
  NoId = none
  Garbled = {}
  PageRequests = {c1, e1, e2, e4}
  OkxRequests = {c2}
  HttpRequests = {e3}
  Payments = {p1}
  Nothing = Nothing
  Backends = {"mock", "facilitator"}
  StaleAfter = 1
  MaxTime = 1
  MaxBoots = 0
  MaxAnnounced = 2
SYMMETRY Symmetry
VIEW View
INVARIANTS SurfaceTypeOK RetryRefusedForCause
CHECK_DEADLOCK FALSE
