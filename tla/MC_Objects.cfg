SPECIFICATION Spec
CONSTANTS
  Width = 10
  Lines = 1
  AllLines = 2
  LineDots = 71
  ScanDots = 10
  Entries = 3
  MaxObjs = 2
  Settings <- MCSettings
  Patterns <- MCPatterns
  OffModes = {}
INVARIANTS TopObject DrawnInTime
