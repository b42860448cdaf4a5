SPECIFICATION Spec
INVARIANTS
  TypeOK
  VerdictTrue
