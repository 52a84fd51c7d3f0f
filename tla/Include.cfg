SPECIFICATION FairSpec
CONSTANTS
  Letters <- TwoLetters
  Keywords <- OneKeyword
  Inputs <- MainFiles
  KeepsContents = TRUE
  Zero <- NoToken
INVARIANTS LongestMatch SameProgram AllIncluded StopsForAReason
PROPERTY Ends
CHECK_DEADLOCK FALSE
