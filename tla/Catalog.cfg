CONSTANTS
  Inventories = {f1, f2, f3}
  None = None
  MaxMoves = 3
  Clients = {c1, c2}
  Queries = {q1}
  Backlog = 1
  MaxVersions = 2
  MaxLists = 4
  MaxExpiries = 2
  Scopes = {"catalog", "storage"}
SPECIFICATION FairSpec
PROPERTIES NeverOlder Announced StorageReached
CHECK_DEADLOCK FALSE
