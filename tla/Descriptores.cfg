SPECIFICATION Spec
CONSTANTS
  Consolas = {c1, c2, c3}
  MaxBajas = 2
CHECK_DEADLOCK FALSE
INVARIANT
  HuerfanosAcotados
PROPERTY
  FinAvisado
