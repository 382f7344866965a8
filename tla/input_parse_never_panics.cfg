\* A blank line (CR LF alone) reaches the parser as an empty String.
CONSTANTS
  MESSAGE_SIZE = 4
  Chunks <- MCInputChunks
  MaxStream = 6
  MAX_MSG_PARAMS = 15
SPECIFICATION InputSpec
INVARIANT ParseNeverPanics
CHECK_DEADLOCK FALSE
