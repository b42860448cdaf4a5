SPECIFICATION Spec
CONSTANTS
  Bit <- MCBit
  Sbox <- MCSbox
  Mul2 <- MCMul2
  Addr <- MCAddr
  Args <- MCArgs
  Mems <- MCMems
INVARIANTS
  TypeOK
  KnownAnswer
PROPERTIES
  ImplementsReference
