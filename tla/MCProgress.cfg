CONSTANTS
  a = a
  b = b
  y1 = y1
  y2 = y2
  Yoo = {y1, y2}
  Cloud = {a}
  Foreign = {f1}
  Cards = {c}
  Calls = {a, b}
  NoMethod = NoMethod
  NoCard = NoCard
SPECIFICATION RunSpec
INVARIANTS
  PaysWithConfirmedOwn
  BoundStaysPayable
PROPERTIES
  HoldIsReleased
  ExpiredIsArchived
  ReceiptArrives
CHECK_DEADLOCK FALSE
