CONSTANTS
  n = n
  Namespaces = {n}
  Repos = {r1, r2}
  NsOf <- NsOfAll
  Versions = {plain, sched, broken}
  Broken = {broken}
  Scheduled = {sched}
  None = None
  Admins = {a1}
  Runs = {x1}
  MaxFaults = 1
  MaxCuts = 1
  Servers = {1, 2}
  Entries <- SomeEntries
  Endpoints <- SomeEndpoints
  ServePorts = {1, 2}
  ServeRequests = {1, 2}
  MaxSaves = 3
  MaxHostKeys = 1
SPECIFICATION SettingsSpec
SYMMETRY Symmetry
INVARIANT SoloReloadHeals
INVARIANT InLine
CHECK_DEADLOCK FALSE
