SPECIFICATION SettingsSpec
CONSTANTS
  Bridge = {b1, b2}
  Font = {1, 2}
  DefaultFont = 1
  Other = {theirs, edited}
  Absent = absent
  Torn = torn
  Nothing = nothing
  MaxUser = 3
PROPERTIES
  OtherSurvives
  MemoryIsFile
CHECK_DEADLOCK FALSE
