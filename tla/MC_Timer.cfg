SPECIFICATION TimingSpec
CONSTANTS
  Half = 2
  SysSize = 16
  Select = {0, 1}
  Tap <- MCTap
  ApuTap = 4
  ApuTapDouble = 8
INVARIANTS TypeOK EdgeIsOverflow TickPeriod ApuPeriod
PROPERTIES ImplementsInterval KeepsOverflowing
