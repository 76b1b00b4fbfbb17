CONSTANTS
  Call = {c1, c2, c3}
  Agent <- MCAgent
  Nonce <- MCNonce
  Grant <- MCGrant
  T <- MCT
  G <- MCG
  Requests <- CountRequests
  Window = 1
  MaxTime = 0
  Serialized = FALSE
  None = None
SYMMETRY Symmetry
SPECIFICATION Spec
INVARIANT MaxChildrenHeld
