SPECIFICATION Spec
CONSTANTS
  v1 = v1
  v2 = v2
  o1 = o1
  Surfaces = {v1}
  Uids = {0}
  None = None
  Faults = {"restart", "bridge", "decode"}
  MaxFaults = 1
  MaxConns = 2
  MaxMoves = 1
  Handlers = {h1}
  Kinds = {}
  Outputs = {o1}
  Wanted <- FirstWanted
  GrantSets <- SomeGrants
  Overrides <- SomeOverrides
  Operations = {"policy","request","output"}
  MaxRequests = 2
  MaxControls = 2
CHECK_DEADLOCK FALSE
INVARIANTS
  CacheConverges
  GrantsHaveSurfaces
