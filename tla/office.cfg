CONSTANTS
  Components = {"trade", "calendar", "demo", "chart", "office"}
  Subjects = {"voucher", "report", "till", "sale"}
  Entries <- Lines
  Created = {"Sales Order", "Material Request"}
  Cashiers = {"ali", "sara"}
  Keys = {k1, k2}
  Workers = {w1, w2}
  Overlapping = {"voucher", "report"}
  MaxDocs <- Bounds
  MaxVouchers = 1
  NoCall = NoCall
  Devices = {phone, desktop}
  Items = {i1}
  Processes = {w1, w2}
  Days = {1, 2}
  MaxEdits = 3
  Parts = {"personal", "official"}
  None = None
SPECIFICATION OfficeSpec
SYMMETRY Interchangeable
INVARIANTS
  ExecutedOnce
PROPERTIES
  PapersStand
  CalendarKept
  SeedAndReset
  ChartStands
  SetUpOnce
CHECK_DEADLOCK FALSE
