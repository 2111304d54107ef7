SPECIFICATION Spec
CONSTANT
  MaxMensajes = 2
CHECK_DEADLOCK FALSE
INVARIANTS
  Fiel
PROPERTIES
  TodoSeRecibe
