SPECIFICATION FairSpec
CONSTANTS
  None = None
  Task = {1, 2}
  Clarification = {1}
  Research = {2}
  MaxSpecs = 2
  MaxArchives = 1
  PlannerDeps = {{}, {2}}
  Commands = {"implement", "plan", "revise", "replace", "adopt", "mark", "continue"}
CHECK_DEADLOCK FALSE
INVARIANTS
  TypeOK
  PendingIsPointed
  BaselineWasRead
  KeepsPlans
PROPERTIES
  ResumesItsRoute
  AnswersAreUsed
