SPECIFICATION Spec
CONSTANTS
  NIrq = 1
  Program = {0, 16, 118, 226}
  Prefixes = {0}
  Targets = {"KEY1", "HDMA5"}
  StackTargets = {"KEY1", "HDMA5"}
  Lengths = {0, 2}
  Blocks = 4
  BlockLen = 3
INVARIANT TypeOK
INVARIANT WaitIsForHblank
PROPERTY ImplementsTransfer
PROPERTY WakeUpKept
PROPERTY CpuProgress
