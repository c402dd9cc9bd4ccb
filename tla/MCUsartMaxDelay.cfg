SPECIFICATION Spec
CONSTANTS
  MAX_DELAY = 3
  MessageSizes = {1, 3}
  ReadSizes = {0, 1, 3}
  WaitTimes = {1, 3}
  MaxLost = 1
INVARIANTS
  MaxDelayNeverExpires
