SPECIFICATION Spec
CONSTANTS
  v1 = v1
  v2 = v2
  o1 = o1
  Surfaces = {v1, v2}
  Uids = {0}
  None = None
  Faults = {"bridge"}
  MaxFaults = 1
  MaxConns = 2
  MaxMoves = 3
  Handlers = {h1}
  Kinds = {"minimize","raise","focus","tag","capture","input"}
  Outputs = {}
  Wanted <- NoneWanted
  GrantSets = {}
  Overrides = {}
  Operations = {}
  MaxRequests = 1
  MaxControls = 0
SYMMETRY Symmetry
CHECK_DEADLOCK FALSE
INVARIANTS
  OneFocused
  RecordConverges
  
  WaitersAreOwned
