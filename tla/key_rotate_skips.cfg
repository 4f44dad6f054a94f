SPECIFICATION Spec
CONSTANTS
  Keys = {k1, k2}
  Repos = {r1, r2}
  Admins = {a1}
  NoKey = none
  BootKey = none
  MaxCrashes = 0
  MaxFaults = 0
INVARIANT SecretsReadable
