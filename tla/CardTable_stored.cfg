\* Two comments, any hash function; with ints of five bits four pairs overflow.
CONSTANTS
  Null = Null
  Keys <- TwoKeys
  Cards <- SomeCards
  Comments <- AllComments
  Hashes <- FewHashes
  OwnRows <- FewRows
  INT_MAX = 15
  CHAR_LEN_FOR_NUM = 8
  MaxComments = 2
SPECIFICATION Spec
INVARIANTS
  ChainsSound
PROPERTIES
  IsMap
  ReplacedAsAsked
  PlainIsClean
CHECK_DEADLOCK FALSE
