CONSTANTS
  Agent <- MCAgent
  Nonce <- MCNonce
  None = None
  Malformed = Malformed
  Unparseable = Unparseable
  parentId = "r"
  childId = "a"
  Typed <- MCTyped
  Pressable <- Button
  MaxPresses = 2
  MaxEdits = 1
SPECIFICATION FairSpec
INVARIANTS TypeOK DocumentedRefusal RefusedAtIssuance StableVerdict PanelsAgree
PROPERTIES EditsSurviveValidation ClickSettles
