\* Three paths offered in any order, of thirty, to either list.
CONSTANTS
  Null = Null
  Paths <- SomePaths
  STD_FUZZ_FACTOR <- Fuzz
  MaxOffers = 3
SPECIFICATION Spec
INVARIANTS
  ListsSorted
  OfferedMatched
  PrecheckSound
  ChoicesRight
CHECK_DEADLOCK FALSE
