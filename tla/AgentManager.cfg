CONSTANTS
  h1 = h1
  h2 = h2
  n1 = n1
  None = None
  Handlers = {h1, h2}
  Names = {n1}
  SpawnRequests <- MCSpawns
  UIDBase = 1
  UIDMax = 3
  Faults = {"useradd", "slice", "nft_add", "start", "crash"}
  MaxHandle = 3
  MaxWaiters = 2
SPECIFICATION FairSpec
INVARIANTS
  HandlesAreOwn
  Confined
  UsersAreKnown
PROPERTIES
  FreshUid
  
  ExitNoticed
