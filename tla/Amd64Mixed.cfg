SPECIFICATION RunSpec
CONSTANTS
  KeepsContents = FALSE
  Zero = Zero
  RegNum = 3
  TableRegs = 4
  TableCap = 12
  FrameCap = 10
  Word = 8
  Sizes = {8}
  Params <- NoneOrOne
  Ops <- EveryOp
  MaxTmp = 8
  MaxPending = 4
  ArgRegs <- OneArg
  Rax = 0
  Rdx = 2
  Arities = {0, 1, 2}
  ParamCounts = {0, 1}
  Depth = 20
  Over = 4
PROPERTY OthersUndisturbed
CHECK_DEADLOCK FALSE
