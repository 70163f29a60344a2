CONSTANTS
  h1 = h1
  h2 = h2
  loop = loop
  root = root
  u1 = u1
  u2 = u2
  s1 = s1
  s2 = s2
  None = None
  NoExpiry = NoExpiry
  Root = root
  Loop = loop
  Handlers = {h1, h2}
  Uids = {root, u1, u2}
  Sessions = {s1, s2}
  ProfileOf <- MCProfiles
  GrantOf <- MCGrants
  EnsureRequests <- CoreEnsures
  EndRequests <- OneEnd
  Faults = {}
  BudgetLimit = 1
  MaxWorkerID = 2
  MaxUID = 2
  MaxClock = 2
SPECIFICATION Spec
INVARIANTS
  TypeOK
  RunningHasAgent
  NoAgentLeaks
  EventsAreTrue
  LeaseBounded
  ReuseAuthorised
PROPERTIES
  OnlyOwnerKills
SYMMETRY Symmetry
