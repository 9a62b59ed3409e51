SPECIFICATION Spec
CONSTANTS
  Reg <- Registers
  RRSP = "rsp"
  RNONE = RNONE
  WordMod = 16
  Addr <- SmallAddr
  Codes <- SmallCodes
  Reg0 <- FirstReg
  Mem0 <- FirstMem
INVARIANT AtMostOne
PROPERTIES KeepsRetiring Sequential
CHECK_DEADLOCK FALSE
