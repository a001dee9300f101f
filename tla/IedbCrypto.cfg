SPECIFICATION CrateSpec
CONSTANTS
  s1 = s1
  s2 = s2
  w1 = w1
  w2 = w2
  alice = alice
  bob = bob
  carol = carol
  \* Token ledger.
  Batches = {1, 2}
  EventLists <- MCEventLists
  NewLine = "/"
  KeyLess <- MCKeyLess
  \* Merkle range.
  leaf = leaf
  Words <- MCWords
  Zero = zero
  MaxLeaves = 8
  MaxIssued = 1
  MaxProven = 3
  \* Canonical signing seam.
  Documents <- MCDocuments
  Stamps <- MCStamps
  MinSigned <- MCMinSigned
  MaxUnsigned = 255
  MaxDepth = 2
  \* Key store and boxes.
  NonceLen = 2
  CiphertextLen = 2
  Nothing = Nothing
  SaltLen = 2
  Seals = {s1, s2}
  Seeds = {alice, bob, carol}
  Passphrases = {w1, w2}
  Boxes = {s1, s2}
  Parties = {alice, bob, carol}
  Texts = {w1, w2}
SYMMETRY Symmetry
INVARIANTS
  CrateTypeOK
  EveryBatchHasItsToken LeavesOnce ListingsAgree
  PeaksArePerfect ProofsProve ProofLivesWithItsMountain RootCommits
  AcceptedIffSame FloatsAreRefused NulSeparates MembersInUtf16Order
  OpensIffIntact OpensForItsPair
PROPERTY ImplementsLife
\* A caller may stop calling, and the life of a payload ends with its verdict.
CHECK_DEADLOCK FALSE
