CONSTANTS
  Agent <- MCAgent
  Nonce <- MCNonce
  None = None
  Malformed = Malformed
  Unparseable = Unparseable
  parentId = "r"
  childId = "a"
  Typed <- MCNothing
  Pressable <- MCVersions
  MaxPresses = 5
  MaxEdits = 0
SPECIFICATION Spec
INVARIANT OthersRefuse
