SPECIFICATION GateSpec
CONSTANTS
  Calls = {c1, c2}
  Presentations = {e1, e2}
  Intents = {i1, i2}
  Payments = {p1, p2}
  Nothing = Nothing
  Backends = {"mock", "facilitator"}
  StaleAfter = 2
  MaxTime = 3
  MaxBoots = 1
SYMMETRY Symmetry
INVARIANTS GateTypeOK SingleUse RedemptionIsPaid LostChargeBuysNothing FreshReceiptRedeemable
PROPERTY ImplementsLedger
\* Clients make no more calls once every one is made: nothing is left to do.
CHECK_DEADLOCK FALSE
