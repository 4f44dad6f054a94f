SPECIFICATION Spec
CONSTANTS
  RemoteNames = {"generic", "apt", "rpm", "alpine", "conda", "cran", "p2", "vagrant", "gitlfs", "huggingface", "nuget", "pypi", "npm", "cargo", "rubygems", "composer", "pub", "swift", "conan", "cocoapods", "bower", "maven", "goproxy", "helm", "terraform", "ansible", "chef", "puppet", "docker"}
  Readers = {1, 2}
  Overlapping = {"npm", "apt", "conda", "ansible"}
  Revisions = {1, 2}
  MaxEvents = 2
  Branches = {"main"}
  Paths = {"p"}
  Contents = {1, 2}
  HubRequests = {1, 2}
  MaxCommits = 1
  MaxHubFaults = 1
  MaxHubReloads = 1
  SourceBranch = "main"
  SourceFiles <- OneFile
  FactorRequests = {1, 2}
  MaxSecrets = 2
  MaxLogins = 2
  Period = 1
  Skew = 1
  MaxClock = 3
  Users = {"u"}
  Superadmins = {}
  Tokens = {"t"}
  Operations = {1, 2, 3}
  MaxAtOnce = 2
  MaxAccountFaults = 1
  VirtualNames = {"generic", "apt", "rpm", "alpine", "conda", "cran", "p2", "vagrant", "gitlfs", "huggingface", "nuget", "pypi", "npm", "cargo", "rubygems", "composer", "pub", "swift", "conan", "cocoapods", "bower", "maven", "goproxy", "helm", "terraform", "ansible", "chef", "puppet", "docker"}
  Members = {1, 2}
  Keys = {1, 2}
  MaxChanges = 2
  MaxWalks = 2
INVARIANT ExpiredRefetched
INVARIANT CachedAnswered
INVARIANT HubWhole
 
INVARIANT RevokedRefused
INVARIANT EarliestServed
CHECK_DEADLOCK FALSE
