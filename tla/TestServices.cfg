SPECIFICATION FairSpec
CONSTANTS
  Process = {p, q}
  Instance = {i1, i2}
  Definition = {d1, d2}
  MaxOrphans = 1
  None = None
INVARIANTS
  TypeOK
  InUseExists
PROPERTIES
  OwnsResources
  CleanupSucceeds
