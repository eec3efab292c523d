SPECIFICATION Spec
CONSTANTS
  Cells = {0, 1}
  Bytes = {0, 1}
  Pages = {"cart", "wram", "vram"}
  Conflicts = FALSE
  EarlyWrites = FALSE
INVARIANT TypeOK
PROPERTIES ImplementsPageCopy NoStray CopyEnds
