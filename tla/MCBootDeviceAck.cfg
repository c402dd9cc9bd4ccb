SPECIFICATION Spec
CONSTANTS
  FLASH_NUMBER_OF_SECTORS = 4
  SECTORS_SIZE <- MCSectorSize
  SECTOR_ADDRESS <- MCSectorAddress
  BitAnd <- MCBitAnd
  Frames <- MCFrames
  StaleBytes = {0, 3}
  bootloaderVersion <- MCVersion
  mcu_id <- MCUid
  OPTION_BYTES <- ProtectedOptionBytes
  OptcrLive = TRUE
  BOOT_CODE <- MCBootCode
  INITIAL_FLASH <- MCInitialFlash
  BootBanner <- MCBanner
  AppBanner <- MCBanner
  MaxUnread = 0
PROPERTIES
  AckMeansErased
