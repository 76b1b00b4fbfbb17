CONSTANTS
  Agent <- MCAgent
  Nonce <- MCNonce
  None = None
  Malformed = Malformed
  Documents <- MCDocuments
SPECIFICATION FairSpec
INVARIANTS TypeOK VerdictSound NoEscalation OneDenial WalkBlames OneEntry
PROPERTY EventuallyDecided
CHECK_DEADLOCK FALSE
