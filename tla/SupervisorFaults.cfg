CONSTANTS
  h1 = h1
  h2 = h2
  loop = loop
  root = root
  u1 = u1
  u2 = u2
  s1 = s1
  s2 = s2
  None = None
  NoExpiry = NoExpiry
  Root = root
  Loop = loop
  Handlers = {h1, h2}
  Uids = {root, u1, u2}
  Sessions = {s1, s2}
  ProfileOf <- MCProfiles
  GrantOf <- MCGrants
  EnsureRequests <- RaceEnsures
  EndRequests <- RaceEnds
  Faults = {"reply_lost", "kill_fails", "bus_down", "crash", "agent_exits"}
  BudgetLimit = 1
  MaxWorkerID = 3
  MaxUID = 1
  MaxClock = 1
SPECIFICATION Spec
INVARIANTS
  FreshWorkerID
  BudgetSlack
PROPERTIES
  ImplementsLifecycle
SYMMETRY Symmetry
