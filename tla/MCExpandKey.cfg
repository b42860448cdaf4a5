SPECIFICATION MCSpec
CONSTANTS
  Bit <- MCBit
  Sbox <- MCSbox
  Mul2 <- MCMul2
  Rcon <- MCRcon
  Addr <- MCAddr
  Keys <- MCKeys
  NumWords = 120
INVARIANTS
  TypeOK
  ScheduleCorrect
PROPERTIES
  ImplementsSchedule
