SPECIFICATION BufferSpec
CONSTANTS
  Chunks <- MCChunks
  Lengths = {0, 1, 2, 3, 4, 5, 6, 7, 8}
  BlockLimit = 3
  MaxReadable = 7
INVARIANTS
  BufferTypeOK
  PeekIsWindow
PROPERTIES
  ImplementsQueue
CHECK_DEADLOCK FALSE
