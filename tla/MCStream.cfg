SPECIFICATION Spec
CONSTANTS
  Bit <- MCBit
  Sbox <- MCSbox
  Mul2 <- MCMul2
  Rcon <- MCRcon
  MemSize <- MCMemSize
  Keys <- MCKeys1
  Nonces <- MCNonces
  InitMem <- MCInitMem
  Requests <- MCRequests
  MaxCalls = 2
  CtrBits = 4
INVARIANTS
  TypeOK
  KnownAnswer
  KeystreamSoFar
PROPERTIES
  ImplementsDriver
  ImplementsStream
