SPECIFICATION TargetSpec
CONSTANTS
  Names <- AllNames
  Numbers <- AllNumbers
  Strings <- AllStrings
  Chars <- AllChars
  MaxNumber = 2
  Values <- SignedBits
  Programs <- Translated
  KeepsContents = TRUE
  Zero = Zero
INVARIANTS TemporariesHeld VariablesHeld StackBelowFrame  ArrivesInX0
