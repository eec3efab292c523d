SPECIFICATION Spec
CONSTANTS
  MAX_CYCLES = 11
  PollDots = 4
  P = 5
  Q = 2
  Block = 2
  Lines = {"a_or_right", "b_or_left"}
INVARIANTS TypeOK NoSleepOverFrames ButtonsShown
PROPERTIES ImplementsAudioStream JoinReturns
