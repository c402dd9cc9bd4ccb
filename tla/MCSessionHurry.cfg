SPECIFICATION SessionSpec
CONSTANTS
  FLASH_NUMBER_OF_SECTORS = 4
  NUMBER_OF_TARGET_FLASH_SECTORS = 4
  SECTORS_SIZE <- MCSectorSize
  SECTOR_ADDRESS <- MCSectorAddress
  BitAnd <- MCBitAnd
  Frames <- MCFrames
  StaleBytes = {0}
  bootloaderVersion <- MCVersion
  mcu_id <- MCUid
  OPTION_BYTES <- MCOptionBytes
  OptcrLive = TRUE
  BOOT_CODE <- MCBootCode
  INITIAL_FLASH <- MCInitialFlash
  BootBanner <- MCBanner
  AppBanner <- MCBanner
  MaxUnread = 20
  MenuFrames <- NoMenuFrames
  Files <- MCFiles
  PROG_BLOCK_MAX_SIZE = 2
  MaxCorrupt = 0
  MaxNacks = 3
  MaxReset = 0
  Gone <- MCGone
  SlowErase = FALSE
  PatientUser = FALSE
INVARIANTS
  ClaimedImageIsInFlash
