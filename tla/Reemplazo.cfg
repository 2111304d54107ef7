SPECIFICATION Spec
CONSTANT
  MaxMarcos = 5
CHECK_DEADLOCK FALSE
INVARIANT
  ReemplazoCorrecto
PROPERTY
  Termina
