CONSTANTS
  Agent <- MCAgent
  Nonce <- MCNonce
  None = None
  Malformed = Malformed
  Documents <- SeedDocuments
SPECIFICATION Spec
INVARIANT NeverThrows
CHECK_DEADLOCK FALSE
