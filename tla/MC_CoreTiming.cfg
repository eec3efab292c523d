SPECIFICATION TimingSpec
CONSTANTS
  NIrq = 1
  Program = {8, 203, 205, 226, 243, 251}
  Prefixes = {0, 134}
  Targets = {"IE", "KEY1"}
  StackTargets = {"mem"}
  Lengths = {0}
  Blocks = 2
  BlockLen = 2
  MaxCount = 7
INVARIANT InterruptLatency
PROPERTY CycleLength
