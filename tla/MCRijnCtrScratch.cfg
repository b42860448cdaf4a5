SPECIFICATION Spec
CONSTANTS
  Bit <- MCBit
  BlockBytes = 2
  Lanes = 4
  CtrMod = 16
  MemSize = 40
  Keys <- MCKeys
  Nonces <- MCNonces
  ZeroNonce = "n0"
  NoKey = "zero"
  E <- MCE
  InitMem <- MCInitMem
  Requests <- MCRequests
  MaxCalls = 2
INVARIANTS
  ScratchCleared
CHECK_DEADLOCK FALSE
