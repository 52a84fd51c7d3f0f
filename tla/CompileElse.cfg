SPECIFICATION Spec
CONSTANTS
  Names <- AllNames
  Numbers <- AllNumbers
  Strings <- AllStrings
  Chars <- AllChars
  MaxNumber = 2
  Values <- ZeroOne
  Programs <- WithElse
INVARIANT SameEvents
