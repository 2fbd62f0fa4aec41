CONSTANTS
  Scooters = {s1}
  Trips = {t1, t2}
  Finishes = {f1, f2}
  NoScooter = NoScooter
  NoTrip = NoTrip
  DepositModelAtTop = TRUE
SPECIFICATION Spec
SYMMETRY Symmetry
CONSTRAINT OneStartAtATime
INVARIANT LiveTripIsRented
CHECK_DEADLOCK FALSE
