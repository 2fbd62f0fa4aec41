CONSTANTS
  a = a
  b = b
  Trips = {a, b}
  Calls = {c}
  Jobs = {a, b}
  NoTrip = NoTrip
  NoRecord = NoRecord
  Statuses = {"GOOD", "TRAVEL_BAN"}
  MaxPauses = 1
SPECIFICATION RunSpec
PROPERTY BanIsEnforced
CHECK_DEADLOCK FALSE
