CONSTANTS
  h1 = h1
  h2 = h2
  loop = loop
  root = root
  u1 = u1
  u2 = u2
  s1 = s1
  s2 = s2
  None = None
  NoExpiry = NoExpiry
  Root = root
  Loop = loop
  Handlers = {h1}
  Uids = {root, u1, u2}
  Sessions = {s1, s2}
  ProfileOf <- MCProfiles
  GrantOf <- MCGrants
  EnsureRequests <- TwoEnsures
  EndRequests <- OneEnd
  Faults = {"agent_exits", "iso_restart"}
  BudgetLimit = 2
  MaxWorkerID = 2
  MaxUID = 2
  MaxClock = 2
SPECIFICATION FairSpec
PROPERTIES
  OverdueEnds
  
