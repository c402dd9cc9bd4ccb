SPECIFICATION FairSpec
CONSTANTS
  W = 8
  B = 2
  POLY <- MCPoly
  BOOT_TIMEOUT = 3
  BaudRates <- MCBaudRates
  Frames <- MCFrames
  MaxResets = 1
INVARIANTS
  TypeOK
  ButtonDecides
  WholeAppIsEntered
  VerdictIsRight
  LineRate
  WindowIsOnTime
PROPERTIES
  MainDecides
