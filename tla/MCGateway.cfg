SPECIFICATION FairSpec
CONSTANTS
  UART_RECV_SIZE = 2
  RT_SERIAL_RB_BUFSZ = 4
  RxTime = 2
  ReadDelay = 1
  SendDelay = 1
  MaxFrame = 3
  MaxLate = 1
  MinGap = 8
INVARIANTS
  BytesInOrder
  NothingStranded
PROPERTY
  EveryFrameHandled
