CONSTANTS
  Components = {"roles"}
  Executors = {u1, u2}
  Issuer = boss
  Scheduler = job
  Drafts <- Forms
  Keys = {k1, k2}
  Workers = {w1, w2}
  Movable <- OtherExecutors
  Impatient = FALSE
  MaxVersion = 1
  MaxTasks = 4
  NoCall = NoCall
  Humans = {h1, h2}
  None = None
  MaxWrites = 1
  MaxPreviews = 2
  MaxJobs = 2
  Askers = {asker}
  RolesOverlap = {"unassign"}
  Identified = {TRUE}
SPECIFICATION AdminSpec
SYMMETRY Interchangeable
PROPERTIES
  AdminRemains
CHECK_DEADLOCK FALSE
