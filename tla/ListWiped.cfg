SPECIFICATION Spec
CONSTANTS
  KeepsContents = FALSE
  Zero = Zero
  Elements = {a, b}
  InitCap = 4
  MaxLen = 5
INVARIANTS TypeOK FitsBlock ZeroOrStored
PROPERTIES LossOnlyAtResize NoThrash
