SPECIFICATION Spec
CONSTANTS
  KeepsContents = FALSE
  Zero = Zero
  RegNum = 7
  TableRegs = 9
  TableCap = 6
  FrameCap = 10
  Word = 8
  Sizes = {8}
  Params <- NoLocals
  Ops <- AllOps
  MaxTmp = 10
  MaxPending = 5
INVARIANT NoSharedRegister
