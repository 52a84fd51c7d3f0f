SPECIFICATION RunSpec
CONSTANTS
  KeepsContents = FALSE
  Zero = Zero
  RegNum = 7
  TableRegs = 9
  TableCap = 6
  FrameCap = 10
  Word = 8
  Sizes = {8}
  Params <- OneOrTwo
  Ops <- AllOps
  MaxTmp = 10
  MaxPending = 2
  ArgRegs <- SystemVArgs
  Rax = 0
  Rdx = 2
  Arities = {0, 1}
  ParamCounts = {0}
  Depth = 20
  Over = 4
INVARIANTS RunTypeOK RspTracksFrame ValuesSurvive LocalsIntact ArgsInOrder NoneErased
CHECK_DEADLOCK FALSE
