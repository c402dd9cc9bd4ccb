SPECIFICATION FairSpec
CONSTANTS
  FLASH_NUMBER_OF_SECTORS = 4
  SECTORS_SIZE <- MCSectorSize
  SECTOR_ADDRESS <- MCSectorAddress
  BitAnd <- MCBitAnd
  Frames <- MCFrames
  StaleBytes = {0, 3}
  bootloaderVersion <- MCVersion
  mcu_id <- MCUid
  OPTION_BYTES <- MCOptionBytes
  OptcrLive = TRUE
  BOOT_CODE <- MCBootCode
  INITIAL_FLASH <- MCInitialFlash
  BootBanner <- MCBanner
  AppBanner <- MCBanner
  MaxUnread = 0
INVARIANTS
  TypeOK
  DriverFree
  ResetToDefault
  AheadErased
  ErasedSoFar
  BlockAsSent
  PointerInApplication
PROPERTIES
  FlashAsSpecified
  BootloaderSurvives
  ReportsWhatWasSet
  HandlerReturns
