SPECIFICATION NativeSpec
CONSTANTS
  r1 = r1
  r2 = r2
  r3 = r3
  r4 = r4
  w1 = w1
  w2 = w2
  u1 = u1
  u2 = u2
  boss = boss
  NoAction = NoAction
  Requests = {r1}
  Kind <- Delivery
  Workers = {w1, w2}
  MaxDocs = 2
  DeskOps = {"submit", "cancel"}
INVARIANTS
  TypeOK
  NothingLeftBehind
  ReceiptTells
PROPERTIES
  DocumentsHold
  ActionDoneOnce
CHECK_DEADLOCK FALSE
