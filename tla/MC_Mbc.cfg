SPECIFICATION Spec
CONSTANTS
  Cartridges <- MCCartridges
  RomBanks = 512
  AddrBanks = 2
  Data = {0, 1, 10, 35}
  Bytes = {0, 1}
  Upper = {"3000", "3001"}
INVARIANT TypeOK
 
PROPERTY ImplementsBatteryRam
