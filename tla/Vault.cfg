SPECIFICATION VaultSpec
CONSTANTS
  Mints = {m1}
  Strangers = {x}
  Bodies = {b1, b2}
  TTL = 2
  MaxInt = 2
  Nothing = Nothing
SYMMETRY Symmetry
INVARIANTS VaultTypeOK AcceptedIsAuthentic VerifiersAgree PaidIntentMints HonestEnvelopeAccepted
\* One mint: what another could sign, the stranger can.
\* Nothing is left to do once every mint was refused.
CHECK_DEADLOCK FALSE
