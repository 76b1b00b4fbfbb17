CONSTANTS
  Call = {c1, c2}
  Agent <- RefusalAgent
  Nonce <- MCNonce
  Grant <- RefusalGrant
  T <- RefusalT
  G <- RefusalG
  Requests <- RefusalRequests
  Window = 1
  MaxTime = 2
  Serialized = FALSE
  None = None
SPECIFICATION FairSpec
INVARIANTS NonceSpentOnce AuditAccounts GrantCountExact
PROPERTY EventuallyAudited
