SPECIFICATION MerkleSpec
CONSTANTS
  leaf = leaf
  Words <- MCWords
  Zero = zero
  MaxLeaves = 3
  MaxIssued = 1
  MaxProven = 2
INVARIANT AcceptedLeafIsThere
