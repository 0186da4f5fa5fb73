SPECIFICATION Spec
CONSTANTS
  k1 = k1
  k2 = k2
  w1 = w1
  w2 = w2
  Kinds = {"Salary", "Contract", "Letter", "Certificate", "Hiring"}
  Serial = {"Salary", "Hiring"}
  MaxDocs = 2
  MaxInst = 2
  Keys = {k1, k2}
  Workers = {w1, w2}
  MaxRev <- Revisions
  MaxVersion = 1
  MaxDay = 2
SYMMETRY Symmetry
INVARIANTS
  TypeOK
  ReviewDecides
  CreatedOnce
PROPERTIES
  RegisterKept
CHECK_DEADLOCK FALSE
