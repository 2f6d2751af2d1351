SPECIFICATION Spec
CONSTANTS
  Task = {1}
  Milestone = {1}
  Finding = {}
  Required = {1}
  NoMilestone = 0
  NoTask = 0
  Configured = {1}
  Commands = {"implement", "revise"}
  PlannerMilestones = {1}
  PlannerDeps = {{}}
  PlannerRewrites = {}
PROPERTY ReviseOnlyPlans
