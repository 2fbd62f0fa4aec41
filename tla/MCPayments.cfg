CONSTANTS
  Options = {o1, o2}
  Period = 2
  LastDay = 5
  Ends = {"e1", "e2", "e3"}
  Trips = {t1, t2}
  Handlers = {k1, k2}
  Fines = {"fine"}
  Debts = {"debt"}
  Scooters = {"s1", "s2"}
  Tariffs = {"f1", "f2"}
  Spare = {"s2", "f2"}
  Boardings = {1, 2}
  Prices = {3, 5}
  Bonuses = {1}
  DuePrice = 7
  None = None
SPECIFICATION RunSpec
SYMMETRY RunSymmetry
INVARIANTS
  TypesOK
  OneChargePerPeriod
  OverdueHasCause
  ReceiptOfOwnCharge
  
