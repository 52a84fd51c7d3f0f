SPECIFICATION Spec
CONSTANTS
  KeepsContents = FALSE
  Zero = Zero
  Elements = {a, b}
  InitCap = 2
  MaxLen = 4
PROPERTY ImplementsSequence
