CONSTANTS
  Headers <- MCHeaders
  Sources <- MCSources
  GTEST_H = "gtest.h"
  GTEST_SPI_H = "gtest-spi.h"
  GTEST_ALL_CC = "gtest-all.cc"
  Setups <- MCSetups
  Alphabets <- MCAlphabets
  Piece <- MCPiece
  MaxWidth = 6
  Continuation = 1
SPECIFICATION MCSpec
INVARIANTS
  CopiedOnce
  WalkComplete
  IncludedBefore
  PairSelfContained
  OutputsInOrder
  BracketsMatch
  AngleSearchesAgree
  CleansingExact
  ParseLosesNothing
  ScopesLexical
  
PROPERTY
  Terminates
CHECK_DEADLOCK FALSE
