SPECIFICATION CompletionSpec
CONSTANTS
  Task = {1, 2}
  Milestone = {1}
  Finding = {1}
  Required = {1}
  NoMilestone = 0
  NoTask = 0
  Configured = {}
  Commands = {"implement", "retry"}
  PlannerMilestones = {1}
  PlannerDeps = {{}}
  PlannerRewrites = {}
PROPERTY WorkflowFinishes
