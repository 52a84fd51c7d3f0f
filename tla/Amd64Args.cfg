SPECIFICATION RunSpec
CONSTANTS
  KeepsContents = FALSE
  Zero = Zero
  RegNum = 7
  TableRegs = 9
  TableCap = 6
  FrameCap = 10
  Word = 8
  Sizes = {8}
  Params <- TwoLocals
  Ops <- AllOps
  MaxTmp = 5
  MaxPending = 2
  ArgRegs <- SystemVArgs
  Rax = 0
  Rdx = 2
  Arities = {2}
  ParamCounts = {0}
  Depth = 20
  Over = 4
INVARIANT ArgsInOrder
CHECK_DEADLOCK FALSE
