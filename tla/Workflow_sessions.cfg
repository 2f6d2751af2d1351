SPECIFICATION RecoverySpec
CONSTANTS
  Task = {1, 2}
  Milestone = {1}
  Finding = {}
  Required = {1}
  NoMilestone = 0
  NoTask = 0
  Configured = {1}
  Commands = {"implement", "retry", "plan", "revise"}
  PlannerMilestones = {1}
  PlannerDeps = {{}, {1}}
  PlannerRewrites = {}
INVARIANTS
  TypeOK
  SingleReview
PROPERTIES
  ClosureIsValidated
  RecoveryIsBounded
  KeepsTaskBoard
  RecoveryEnds
