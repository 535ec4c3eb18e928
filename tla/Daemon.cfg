CONSTANTS
  Commands = {c1, c2}
  MaxDaemons = 3
  Scopes <- MCScopes
  MaxLines = 2
  TailLines = 1
SPECIFICATION Spec
INVARIANTS Recorded Reachable RouterManaged FollowExact
CHECK_DEADLOCK FALSE
