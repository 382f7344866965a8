\* Violation: TopicSetterIsOp
CONSTANTS
  c1 = c1  c2 = c2  c3 = c3  n1 = n1  n2 = n2  ch1 = ch1  ch2 = ch2
  NoName = NoName
  Client <- MCClient2
  Nick <- MCNick2
  Chan <- MCChan1
  MaxChanObj = 2
SPECIFICATION Spec
CONSTRAINT UniqueNicks
INVARIANT TopicSetterIsOp
CHECK_DEADLOCK FALSE
