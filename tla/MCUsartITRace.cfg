SPECIFICATION Spec
CONSTANTS
  U8 = 4
  USART_TX_BUFFER_SIZE = 4
  MessageSizes = {2}
  ReadSizes = {1, 2}
  MaxLost = 0
INVARIANTS
  NoInterruptAfterMessage
