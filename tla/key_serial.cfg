SPECIFICATION FairSpec
CONSTANTS
  Keys = {k1, k2, k3}
  Repos = {r1, r2}
  Admins = {a1}
  NoKey = none
  BootKey = k1
  MaxCrashes = 1
  MaxFaults = 0
INVARIANT KeyMatchesVerifier
INVARIANT SealedUnderKnownKey
INVARIANT CredentialsReadable
PROPERTY RotationCompletes
