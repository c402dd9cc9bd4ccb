SPECIFICATION FairSpec
CONSTANTS
  FLASH_NUMBER_OF_SECTORS = 4
  SECTORS_SIZE <- MCSectorSize
  SECTOR_ADDRESS <- MCSectorAddress
  BitAnd <- MCBitAnd
  INITIAL_FLASH <- MCInitialFlash
  OptcrAtReset <- MCOptcrAtReset
  Masks = {0, 12}
  Writes <- MCWrites
  Parallelisms = {"X8", "X16"}
  Operations = {"MassErase", "SectorErase", "Program", "Protect"}
INVARIANTS
  TypeOK
  ClosedWhenIdle
  CleanMeansProgrammed
PROPERTIES
  HandsOffWhileBusy
  ImplementsFlashSpec
  CallsReturn
