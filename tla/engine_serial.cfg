SPECIFICATION Spec
CONSTANTS
  ann = ann
  bob = bob
  cyd = cyd
  w1 = w1
  w2 = w2
  Users <- MCUsers
  Initiator = ann
  Stages <- BoardStages
  Config <- BoardConfig
  Routes <- BoardRoutes
  Workers = {w1}
  MaxVisits = 4
  MaxEdits = 1
  MaxSaves = 2
INVARIANTS
  TypeOK
  InstanceTells
  LastAssigneeMakesOutput
PROPERTIES
  HistoryHolds
CHECK_DEADLOCK FALSE
