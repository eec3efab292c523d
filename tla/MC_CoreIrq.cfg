SPECIFICATION Spec
CONSTANTS
  NIrq = 3
  Program = {52, 118, 243, 251}
  Prefixes = {0}
  Targets = {"IF", "IE"}
  StackTargets = {"mem"}
  Lengths = {0}
  Blocks = 2
  BlockLen = 2
INVARIANT ServiceNeedsIME
INVARIANT ServiceHasRequest
PROPERTY HandlerKeepsFlag
