CONSTANTS
  MAX_NESTING_DEPTH = 2
  MAX_DOCUMENT_BYTES = 9
  Spelling <- MCSpelling
  Meaning <- MCMeaning
  FORBIDDEN_KEYS <- MCForbidden
  KNOWN_DOCUMENT_FIELDS <- MCKnown
  None = None
  KeyOrder <- MCKeyOrder
  TEMPLATE_FIELDS <- MCKnown
  MAX_TEMPLATE_EXTENSION_BYTES = 9
  SERIAL_RANDOM_OCTETS = 3
  MAX_SERIAL_OCTETS = 4
  MIN_SERIAL_OCTETS = 2
  Octet = {0, 1, 128}
  ttl_seconds = 3
  now = 5
  MaxText = 10
  MaxStray = 4
  MaxChanges = 2
SPECIFICATION Spec
INVARIANTS TypeOK ReaderAgrees DocumentSafe OneEncoding SerialKeepsTheDraw FlawsAreNamed ContentIsTheAnchors
PROPERTY RefusalStands
CHECK_DEADLOCK FALSE
