CONSTANTS
  Null = Null
  Keys <- TwoKeys
  Cards <- SomeCards
  Comments <- AllComments
  Hashes <- FewHashes
  OwnRows <- FewRows
  INT_MAX = 127
  CHAR_LEN_FOR_NUM = 8
  MaxComments = 1
SPECIFICATION Spec
INVARIANT PairedSurvives
CHECK_DEADLOCK FALSE
