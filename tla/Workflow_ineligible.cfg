SPECIFICATION Spec
CONSTANTS
  Task = {1, 2}
  Milestone = {1}
  Finding = {}
  Required = {1}
  NoMilestone = 0
  NoTask = 0
  Configured = {}
  Commands = {"implement"}
  PlannerMilestones = {1}
  PlannerDeps = {{}, {2}}
  PlannerRewrites = {"dependencies"}
PROPERTY DevelopsEligibleTask
