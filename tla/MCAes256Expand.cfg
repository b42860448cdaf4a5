SPECIFICATION MCSpec
CONSTANTS
  Bit <- MCBit
  Sbox <- MCSbox
  Mul2 <- MCMul2
  Rcon <- MCRcon
  Addr <- MCAddr
  NumWords = 60
  N <- MCN
  TestAt <- MCTestAt
  TestKeys <- MCTestKeys
  PastKeys <- MCPastKeys
INVARIANTS
  TypeOK
  ScheduleCorrect
  TestPasses
  SameChain
PROPERTIES
  ImplementsSchedule
CHECK_DEADLOCK FALSE
