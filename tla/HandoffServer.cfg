SPECIFICATION HandoffSpec
CONSTANTS
  Calls = {c1, c2}
  Presentations = {e1, e2}
  Intents = {i1, i2}
  Payments = {p1}
  Nothing = Nothing
  Backends = {"mock", "facilitator"}
  StaleAfter = 1
  MaxTime = 1
  MaxBoots = 1
  MaxAnnounced = 1
SYMMETRY Symmetry
INVARIANTS HandoffTypeOK FeedIsAudit
\* Clients make no more requests once every one is made: nothing is left to do.
CHECK_DEADLOCK FALSE
