CONSTANTS
  Call = {c1, c2, c3}
  Agent <- MCAgent
  Nonce <- MCNonce
  Grant <- MCGrant
  T <- MCT
  G <- MCG
  Requests <- CountRequests
  Window = 1
  MaxTime = 1
  Serialized = TRUE
  None = None
SYMMETRY Symmetry
SPECIFICATION Spec
INVARIANTS TypeOK MaxChildrenHeld MaxSpawnsHeld ChildrenRecorded AuditLinked
PROPERTY ImplementsLedger
PROPERTY OneLiveCertificate
PROPERTY SpawnUnderPolicyInForce
PROPERTY PolicyNeverRegresses
