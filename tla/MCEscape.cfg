CONSTANTS
  Peers = {}
  Texts <- MCTexts
  Errors = {}

SPECIFICATION Spec
INVARIANT EscapeMatchesReference
