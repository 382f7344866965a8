CONSTANTS
  MAX_MSG_SIZE = 512
  MAX_MSG_PARAMS = 15
  USIZE = 1073741824
  HostLens = {1, 4, 9}
  ChanLens = {2, 3, 5, 50}
  Replies <- MCReplies
  MaxLines = 3
SPECIFICATION Spec
PROPERTY ReplyDelivered
CHECK_DEADLOCK FALSE
