SPECIFICATION Spec
CONSTANTS
  Bit <- MCBit
  Sbox <- MCSbox
  Mul2 <- MCMul2
  Rcon <- MCRcon
  MemSize <- MCMemSize
  Addr <- MCAddr
  NumWords = 60
  Keys <- MCKeys2
  InitMem <- MCInitMem
  Requests <- MCRequests
  MaxCalls = 2
INVARIANTS
  TypeOK
  KeyInRegister
  Enciphered
  LeavesTheRest
