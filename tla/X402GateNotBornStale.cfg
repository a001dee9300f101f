SPECIFICATION GateSpec
CONSTANTS
  Calls = {c1}
  Presentations = {e1}
  Intents = {i1}
  Payments = {p1}
  Nothing = Nothing
  Backends = {"facilitator"}
  StaleAfter = 1
  MaxTime = 2
  MaxBoots = 0
PROPERTY NotBornStale
CHECK_DEADLOCK FALSE
