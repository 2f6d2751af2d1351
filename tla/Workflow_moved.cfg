SPECIFICATION Spec
CONSTANTS
  Task = {1, 2}
  Milestone = {1, 2}
  Finding = {1}
  Required = {1, 2}
  NoMilestone = 0
  NoTask = 0
  Configured = {}
  Commands = {"implement"}
  PlannerMilestones = {1, 2}
  PlannerDeps = {{}}
  PlannerRewrites = {"milestone"}
INVARIANT IntegrationIsCurrent
