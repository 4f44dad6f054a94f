SPECIFICATION Spec
CONSTANTS
  Names <- AllNames
  Versions <- TwoVersions
  MaxRequests = 3
  MaxFaults = 1
  MaxReloads = 1
CONSTRAINT FaultOrReload
INVARIANTS
  QuietListing
  AckedListed
  ListedResolves
  RefusalSound
  ImmutableKept
  MarksKept
  IndexRepaired
