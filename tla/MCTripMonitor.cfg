CONSTANTS
  Trips = {t1}
  Calls = {c1, c2, c3}
  Jobs = {j1}
  NoTrip = NoTrip
  NoRecord = NoRecord
  Statuses = {"GOOD", "TRAVEL_BAN", "ALL_TIME_SPEED_LIMIT"}
  MaxPauses = 2
  p1 = p1
  p2 = p2
  p3 = p3
  Places <- ThreePlaces
  Day = 6
  Forms <- MCForms
  MaxZones = 2
SPECIFICATION RunSpec
CONSTRAINT TwoCallsAtATime
SYMMETRY Symmetry
INVARIANTS
  RecordCoherent
  ScheduleInHours
PROPERTY QuietStaysQuiet
CHECK_DEADLOCK FALSE
