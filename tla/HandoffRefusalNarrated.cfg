SPECIFICATION HandoffSpec
CONSTANTS
  Calls = {c1}
  Presentations = {e1}
  Intents = {i1, i2}
  Payments = {p1}
  Nothing = Nothing
  Backends = {"mock", "facilitator"}
  StaleAfter = 1
  MaxTime = 1
  MaxBoots = 0
  MaxAnnounced = 0
INVARIANT EveryRefusalIsNarrated
CHECK_DEADLOCK FALSE
