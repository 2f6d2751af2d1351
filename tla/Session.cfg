SPECIFICATION FairSpec
CONSTANTS
  Sessions = {s1, s2}
  MaxAttempts = 2
  None = None
  Operations <- FallibleOperations
  MaxInFlight = 1
INVARIANTS
  TypeOK
  CorrectionIsBookkeeping
PROPERTIES
  KeepsAtomicity
  AppliesWholeResult
  ReviewIsGated
  KeepsOperatorsCommits
  AsksAgain
  WorkIsFinished
CHECK_DEADLOCK FALSE
