CONSTANTS
  c1 = c1
  r1 = r1
  r2 = r2
  approve = approve
  deny = deny
  Verdicts = {approve, deny}
  None = None
  Logger = Logger
  Conns = {c1}
  Reviewers = {r1, r2}
  Faults = {"admin_write", "admin_sync", "shell_write", "bus_drops", "admin_restarts", "shell_restarts", "power"}
  QueueSize = 1
  MaxEscalated = 1
  MaxRequests = 2
  MaxFaults = 3
SPECIFICATION Spec
INVARIANTS
  ToldIsLogged
  LoggedOnce
  RecordedFirst
  DecisionSlack
SYMMETRY Symmetry
CHECK_DEADLOCK FALSE
