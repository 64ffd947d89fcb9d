SPECIFICATION BytesSpec
CONSTANTS
  GROW = 4
  Sizes <- MCSizes
  Ints <- MCInts
  Shorts <- MCShorts
  Chars <- MCChars
  Contents <- MCContents
  MaxIndex = 3
  Values <- MCValues
  Bytes <- HighAndLow
  Lengths <- MCLengths
  MaxCalls = 3
INVARIANTS
  WriteOverrunOnlyIfShort
  ReadBack
  ReadsLikeTheBits
  LengthSurvivesOrIsNegative
  NothingLost
  PaddedAsDefined
CHECK_DEADLOCK FALSE
