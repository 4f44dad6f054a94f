SPECIFICATION Spec
CONSTANTS
  a = a
  b = b
  Chunks = {a, b}
  MaxLen = 2
  Wanted <- Nested
  Sessions = {s1, s2}
  Requests = {r1, r2}
  Absent = absent
  Hole = hole
  AtomicWrite = TRUE
  MaxReloads = 1
  MaxCrashes = 1
  MaxFaults = 1
SYMMETRY Symmetry
INVARIANT TypeOK
INVARIANT TablesAgree
PROPERTY Implements
