SPECIFICATION Spec
CONSTANTS
  Names <- AllNames
  Numbers <- AllNumbers
  Strings <- AllStrings
  Chars <- AllChars
  MaxNumber = 2
  Values <- SignedBits
  Programs <- Supported
INVARIANTS Accepts CheckAgrees SameEvents LabelsResolve HasHome EachAllocatedOnce FreedAfterLastUse ReadsWritten NothingStaysAllocated
PROPERTY ComesToSomething
