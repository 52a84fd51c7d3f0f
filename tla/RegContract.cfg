SPECIFICATION Spec
CONSTANTS
  KeepsContents = FALSE
  Zero = Zero
  RegNum = 3
  TableRegs = 3
  TableCap = 12
  FrameCap = 10
  Word = 8
  Sizes = {8, 16}
  Params <- OneLocal
  Ops <- AllOps
  MaxTmp = 8
  MaxPending = 5
INVARIANTS TypeOK RegInTable EntriesAreHomes SlotsDisjoint
