CONSTANTS
  Scooters = {s1}
  Trips = {t1, t2}
  Finishes = {f1, f2}
  NoScooter = NoScooter
  NoTrip = NoTrip
  DepositModelAtTop = TRUE
  Requests = {k1, k2}
  Emails = {e1}
  MaxCalls = 4
  MaxRows = 2
SPECIFICATION RunSpec
SYMMETRY RunSymmetry
INVARIANTS
  TypesOK
  RentedHasOpenTrip
  RideHoldsDeposit
  PaymentBacked
  ActiveRowUntilPaid
  
  OneAccount
  ScootersAgree
PROPERTY KeepsLifecycle
CHECK_DEADLOCK FALSE
