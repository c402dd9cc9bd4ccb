SPECIFICATION FairSpec
CONSTANTS
  U8 = 4
  USART_TX_BUFFER_SIZE = 4
  MessageSizes = {0, 2, 4}
  ReadSizes = {1, 2}
  MaxLost = 1
INVARIANTS
  TypeOK
  MessageIsWhole
  ReadIsWhole
PROPERTIES
  CaughtForGood
  TransfersEnd
