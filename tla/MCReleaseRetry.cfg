SPECIFICATION Spec
CONSTANTS
  Workflows = {"w1"}
  Plan <- MCPlan
  Grants = {"g1"}
  FirstGrant = "g1"
  MaxUses = 3
  MaxFaults = 2
  MaxAttempts = 2
INVARIANTS
  AtMostOnce
CHECK_DEADLOCK FALSE
