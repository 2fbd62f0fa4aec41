CONSTANTS
  p1 = p1
  p2 = p2
  p3 = p3
  Places <- ThreePlaces
  Day = 6
  Forms <- MCForms
  MaxZones = 2
SPECIFICATION FairSpec
PROPERTIES
  DeviceSettles
