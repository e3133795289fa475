CONSTANTS
  Peers <- MCPeers
  Texts = {}
  Errors = {}

SPECIFICATION Spec
INVARIANT AccessMatchesSpec
