SPECIFICATION FairSpec
CONSTANTS
  None = None
  Task = {1}
  Clarification = {1}
  Research = {}
  MaxSpecs = 1
  MaxArchives = 1
  PlannerDeps = {{}}
  Commands = {"implement", "plan", "revise", "replace", "adopt", "mark", "continue"}
CHECK_DEADLOCK FALSE
PROPERTIES
  SupersedingContinues
