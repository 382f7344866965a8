\* Framing: the array implements FrameStream within its capacity.
CONSTANTS
  MESSAGE_SIZE = 4
  Chunks <- MCChunks
  MaxStream = 8
SPECIFICATION Spec
INVARIANT TypeOK
PROPERTY BufferRefinesFrameStream
CHECK_DEADLOCK FALSE
