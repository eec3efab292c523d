SPECIFICATION LSpec
CONSTANTS
  Width = 2
  FastTap = 2
  SlowTap = 4
  Drift = 2
  IdleLow = FALSE
PROPERTY Swapped
PROPERTY ExchangeEnds
