\* Every frame of up to 7 characters over x, space, : @ ! and .
CONSTANTS
  MAX_MSG_PARAMS = 2
  MaxLen = 7
  Alphabet <- MCAlphabet
  Letter <- MCLetter
SPECIFICATION Spec
CHECK_DEADLOCK FALSE
INVARIANT TypeOK ParamsBounded MiddleFirstAgrees PrefixAgrees
