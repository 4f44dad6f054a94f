SPECIFICATION FairSpec
CONSTANTS
  a = a
  b = b
  Chunks = {a, b}
  MaxLen = 2
  Wanted <- Whole
  Sessions = {s1, s2}
  Requests = {r1, r2}
  Absent = absent
  Hole = hole
  AtomicWrite = FALSE
  MaxReloads = 0
  MaxCrashes = 0
  MaxFaults = 1
INVARIANT NoForeignChunk
INVARIANT QuietWhole
PROPERTY RequestsAnswered
