CONSTANTS
  Agent <- MCAgent
  Nonce <- MCNonce
  None = None
  Malformed = Malformed
  Unparseable = Unparseable
  parentId = "r"
  childId = "a"
  Typed <- MCNothing
  Pressable <- MCRecertify
  MaxPresses = 2
  MaxEdits = 0
SPECIFICATION Spec
INVARIANT StaysValid
