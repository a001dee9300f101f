SPECIFICATION FairShellSpec
CONSTANTS
  Calls = {c1, c2}
  Presentations = {e1, e2, e3}
  Intents = {i1, own, none}
  MockIntents = {i1}
  NoId = none
  Garbled = {own}
  PageRequests = {c1, e1, e2}
  OkxRequests = {e3}
  HttpRequests = {c2}
  Payments = {p1}
  Nothing = Nothing
  Backends = {"mock", "facilitator"}
  StaleAfter = 1
  MaxTime = 0
  MaxBoots = 0
  MaxAnnounced = 1
\* Every step changes what the view keeps.
VIEW View
INVARIANTS SurfaceRefusalsAreTold LiveSurfacesCannotPay UnreadableIdsAreNeverServed
PROPERTIES EveryClickIsAnswered PaidExecutionsDeliver
CHECK_DEADLOCK FALSE
