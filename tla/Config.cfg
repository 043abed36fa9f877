\* The required options in any order, with any two more pieces.
SPECIFICATION Spec
CONSTANTS
  Tokens <- AllTokens
  Length <- Lengths
  KeyBytes <- Keys
  Numeral <- Numerals
  UIntMax = 1000000
  ULongMax <- ULong
  Lines <- AllLines
INVARIANTS TypeOK ParsedAsMeant SwallowedShows
CHECK_DEADLOCK FALSE
