CONSTANTS
  Paths = {1, 2}
  MaxKeys = 3
  MaxChanges = 2
  Scopes <- MCScopes
SPECIFICATION FairSpec
INVARIANTS SeenStopRemembered
PROPERTIES NeverBack DeleteAsShown ConfigShown
CHECK_DEADLOCK FALSE
