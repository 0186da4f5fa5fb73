SPECIFICATION Spec
CONSTANTS
  ann = ann
  bob = bob
  cyd = cyd
  w1 = w1
  w2 = w2
  Users <- MCUsers
  Initiator = ann
  Stages <- BoardStages
  Config <- BoardConfig
  Routes <- BoardRoutes
  Workers = {w1, w2}
  MaxVisits = 3
  MaxEdits = 0
  MaxSaves = 0
INVARIANTS
  LastAssigneeMakesOutput
CHECK_DEADLOCK FALSE
