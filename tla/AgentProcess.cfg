SPECIFICATION FairSpec
CONSTANTS
  Inactivity = {None, 2}
  Maximum = {None, 3}
  Interval = 1
  Grace = 2
  Drain = 2
  Lag = 1
  Programs <- SomePrograms
  MaxInterrupts = 2
  None = None
INVARIANTS
  TypeOK
  NeverOverstays
  OutputIsComplete
  SignalsOwnGroup
PROPERTIES
  KeepsPromise
  VerdictIsFair
  FilterFinishes
CHECK_DEADLOCK FALSE
