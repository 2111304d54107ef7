SPECIFICATION Spec
CONSTANT
  MaxDespachos = 3
CHECK_DEADLOCK FALSE
INVARIANTS
  TypeOK
  SinDesfasaje
PROPERTIES
  TurnoRespetado
  CadaDespachoVuelve
