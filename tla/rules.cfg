CONSTANTS
  Components = {"form", "leave", "designer", "stage"}
  Order <- FormOrder
  Schemas <- FormSchemas
  Numbers = {1, 2}
  Records = {1, 2}
  AttributeOf <- Attributes
  Limit = 3
  None = "none"
  StageConfigs <- StageFields
  StageRequests <- StageAmounts
SPECIFICATION RulesSpec
INVARIANTS
  Settled
  ClientHasNoSay
  LeaveKept
PROPERTIES
  WorkflowsRun
  AcceptedStands
CHECK_DEADLOCK FALSE
