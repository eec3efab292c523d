SPECIFICATION PSpec
CONSTANTS
  Width = 3
  FastTap = 2
  SlowTap = 4
  IdleLow = TRUE
INVARIANT TypeOK
PROPERTY ImplementsExchange
PROPERTY TransferEnds
PROPERTY PrintsWhatIsSent
