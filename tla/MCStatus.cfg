CONSTANTS
  Peers = {}
  Texts = {}
  Errors <- MCErrors

SPECIFICATION Spec
INVARIANT StatusMatchesSpec
