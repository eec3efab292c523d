SPECIFICATION SSpec
CONSTANTS
  Width = 10
  Lines = 2
  AllLines = 3
  LineDots = 54
  ScanDots = 7
  Entries = 2
  MaxObjs = 1
  Settings <- MCSettings
  Patterns <- MCPatterns
  OffModes = {"vblank"}
  StopModes = {"hblank", "vblank", "oamScan"}
INVARIANTS TypeOK
PROPERTY ImplementsRaster
