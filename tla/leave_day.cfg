CONSTANTS
  Components = {"leave"}
  Order <- FormOrder
  Schemas <- FormSchemas
  Numbers = {1, 2}
  Records = {1, 2}
  AttributeOf <- Attributes
  Limit = 3
  None = "none"
  StageConfigs <- StageFields
  StageRequests <- StageAmounts
SPECIFICATION RulesSpec
INVARIANTS
  DayLimitKept
CHECK_DEADLOCK FALSE
