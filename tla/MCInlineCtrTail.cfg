SPECIFICATION Spec
CONSTANTS
  Bit <- MCBit
  Sbox <- MCSbox
  Mul2 <- MCMul2
  Addr <- MCAddr
  NumWords = 60
  Rcon <- MCRcon
  MemSize <- MCMemSize
  Keys <- MCKeys2
  Nonces <- MCNonces
  InitMem <- MCInitMem
  Requests <- MCRequests
  MaxCalls = 1
INVARIANT
  EveryLengthReturns
