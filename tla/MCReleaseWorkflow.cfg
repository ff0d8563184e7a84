SPECIFICATION Spec
CONSTANTS
  Workflows = {"w1", "w2"}
  Plan <- MCPlan
  Grants = {"g1", "g2"}
  FirstGrant = "g1"
  MaxUses = 3
  MaxFaults = 2
  MaxAttempts = 2
INVARIANTS
  UsesAccounted
PROPERTIES
  ImplementsReleasePlan
  WorkflowSettles
CHECK_DEADLOCK FALSE
