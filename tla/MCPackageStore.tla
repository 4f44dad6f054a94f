--------------------------- MODULE MCPackageStore ---------------------------
EXTENDS PackageStore
AllNames == DOMAIN Formats
TwoVersions == {1, 2}

\* A bound: a behaviour has a fault or a reload, not one after the other.
FaultOrReload == faults = 0 \/ object = 1
=============================================================================
