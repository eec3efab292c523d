SPECIFICATION Spec
CONSTANTS
  SecPerMin = 2
  MinPerHour = 2
  HourPerDay = 1
  Byte = 2
  MaxAge = 7
  Steps = {1}
  Battery = {FALSE}
  Banks = {"RAM", "S", "M", "DL", "DH"}
  Data = {0, 1}
  Garbage <- MCGarbage
INVARIANT TypeOK
PROPERTY ImplementsClock
