SPECIFICATION Spec
CONSTANTS
  Keys = {k1, k2}
  Repos = {r1}
  Admins = {a1, a2}
  NoKey = none
  BootKey = none
  MaxCrashes = 1
  MaxFaults = 1
SYMMETRY Symmetry
INVARIANT InitializedSound
INVARIANT StoredSealed
