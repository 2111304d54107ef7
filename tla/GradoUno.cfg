SPECIFICATION SpecJusta
CONSTANTS
  p1 = p1
  p2 = p2
  p3 = p3
  Procesos <- MCProcesos
  Dispositivos <- MCUnDispositivo
  Programas <- ProgramasLargos
  GradoMax = 1
  Algoritmo = "FIFO"
  Nadie = Nadie
CHECK_DEADLOCK FALSE
INVARIANT
  SinColapso
PROPERTIES
  RespuestaPropia
  TerminanTodos
